---- MODULE Spec2Model ----
(***************************************************************************)
(* A model of c-deps/libroach/db.cc: the MVCC key codec and comparator,    *)
(* the MVCC scanner (mvccScanner<reverse>), the indexed batch (DBBatch)    *)
(* and its overlay iterator (BaseDeltaIterator / ProcessDeltaKey), and the *)
(* other engines over the store: DBImpl, DBWriteOnlyBatch and DBSnapshot.  *)
(*                                                                         *)
(* Byte strings are sequences over 0..255.  A stored value is a record     *)
(* [kind, bytes, meta]: kind "raw" carries plain bytes, kind "meta" a      *)
(* serialized MVCCMetadata message (the protobuf wire format itself is     *)
(* outside db.cc), kind "null" is a DBString whose data pointer is NULL.   *)
(***************************************************************************)
EXTENDS Integers, Sequences, FiniteSets, TLC

VARIABLES
  store,    \* the rocksdb::DB contents: rows [key, value] sorted by DBComparator
  sc,       \* the fields of one mvccScanner<reverse> (and its DBScanResults)
  batch,    \* the fields of one DBBatch: updates, has_delete_range, batch
  it,       \* the fields of one BaseDeltaIterator made by DBBatch::NewIter
  got,      \* the DBStatus/DBString a DBBatch::Get call handed back
  seq,      \* the sequence number of the rocksdb::DB: the writes applied to it
  wo,       \* the fields of one DBWriteOnlyBatch: updates, batch
  snap,     \* the fields of one DBSnapshot and of the DBIterator of its NewIter
  codec     \* one call of the key codec: its arguments and what it handed back

vars == <<store, sc, batch, it, got, seq, wo, snap, codec>>

\* What the calls on the batch, its iterator and the scanner leave alone.
others == <<seq, wo, snap, codec>>

Min(a, b) == IF a < b THEN a ELSE b
Max(a, b) == IF a > b THEN a ELSE b

(***************************************************************************)
(* rocksdb::Slice::compare: memcmp over the common length, then length.    *)
(***************************************************************************)
SliceCompare(a, b) ==
  LET n == Min(Len(a), Len(b))
      diff == {i \in 1..n : a[i] # b[i]}
  IN IF diff # {}
     THEN LET i == CHOOSE x \in diff : \A y \in diff : x <= y
          IN IF a[i] < b[i] THEN -1 ELSE 1
     ELSE IF Len(a) < Len(b) THEN -1 ELSE IF Len(a) > Len(b) THEN 1 ELSE 0

starts_with(a, p) == Len(a) >= Len(p) /\ SubSeq(a, 1, Len(p)) = p

(***************************************************************************)
(* Timestamps: <<wall_time, logical>>.                                     *)
(***************************************************************************)
kZeroTimestamp == <<0, 0>>
kInt32Max == 2147483647
kMVCCVersionTimestampSize == 12

TsLess(a, b) == a[1] < b[1] \/ (a[1] = b[1] /\ a[2] < b[2])
TsLessEq(a, b) == ~TsLess(b, a)
\* The strict comparison, for showing what hangs on the equality case of >=.
TsGreater(a, b) == TsLess(b, a)
TsGreaterEq(a, b) == TsLessEq(b, a)

\* PrevTimestamp aborts the process on the zero timestamp; callers in the
\* model never pass it (an intent's timestamp is that of a version key).
PrevTimestamp(ts) ==
  IF ts[2] > 0 THEN <<ts[1], ts[2] - 1>>
  ELSE IF ts[1] = 0 THEN ts  \* abort(): no caller in the model passes (0,0)
  ELSE <<ts[1] - 1, kInt32Max>>

(***************************************************************************)
(* encoding.h: big-endian fixed-width integers.  Values stay below 2^31,   *)
(* so the four high bytes of a uint64 are the sign extension.              *)
(***************************************************************************)
Pow256(k) == CASE k = 0 -> 1 [] k = 1 -> 256 [] k = 2 -> 65536 [] OTHER -> 16777216

EncodeUint32(v) == [i \in 1..4 |-> (v \div Pow256(4 - i)) % 256]

EncodeUint64(v) ==
  [i \in 1..8 |-> IF i <= 4 THEN (IF v < 0 THEN 255 ELSE 0)
                  ELSE (v \div Pow256(8 - i)) % 256]

\* The value of four big-endian bytes read as a signed 32-bit integer.
BE32(b) ==
  LET hi == IF b[1] >= 128 THEN b[1] - 256 ELSE b[1]
  IN hi * 16777216 + b[2] * 65536 + b[3] * 256 + b[4]

\* DecodeUint32(&buf, &v): [ok, v, rest]
DecodeUint32(buf) ==
  IF Len(buf) < 4 THEN [ok |-> FALSE, v |-> 0, rest |-> buf]
  ELSE [ok |-> TRUE, v |-> BE32(SubSeq(buf, 1, 4)), rest |-> SubSeq(buf, 5, Len(buf))]

\* DecodeUint64(&buf, &v): walls of the model fit the low four bytes.
DecodeUint64(buf) ==
  IF Len(buf) < 8 THEN [ok |-> FALSE, v |-> 0, rest |-> buf]
  ELSE [ok |-> TRUE, v |-> BE32(SubSeq(buf, 5, 8)), rest |-> SubSeq(buf, 9, Len(buf))]

\* An EncodeTimestamp that leaves the logical part out.
EncodeTimestampWallOnly(wall_time, logical) == EncodeUint64(wall_time)

EncodeTimestamp(wall_time, logical) ==
  EncodeUint64(wall_time) \o (IF logical # 0 THEN EncodeUint32(logical) ELSE <<>>)

EncodeKey(key, wall_time, logical) ==
  LET ts == wall_time # 0 \/ logical # 0
      s == key \o (IF ts THEN <<0>> \o EncodeTimestamp(wall_time, logical) ELSE <<>>)
  IN s \o <<(Len(s) - Len(key)) % 256>>

\* SplitKey(buf, &key, &timestamp): [ok, key, ts].  The length byte is a
\* char compared against a size_t, so a byte >= 128 never passes.
SplitKey(buf) ==
  IF buf = <<>> THEN [ok |-> FALSE, key |-> <<>>, ts |-> <<>>]
  ELSE LET ts_size == buf[Len(buf)]
       IN IF ts_size >= 128 \/ ts_size >= Len(buf)
          THEN [ok |-> FALSE, key |-> <<>>, ts |-> <<>>]
          ELSE [ok |-> TRUE,
                key |-> SubSeq(buf, 1, Len(buf) - ts_size - 1),
                ts |-> SubSeq(buf, Len(buf) - ts_size, Len(buf) - 1)]

\* DecodeTimestamp(&timestamp, &wall, &logical): [ok, wall, logical, rest];
\* w0/l0 are what the out-parameters held before the call.
DecodeTimestamp(buf, w0, l0) ==
  LET w == DecodeUint64(buf)
  IN IF ~w.ok THEN [ok |-> FALSE, wall |-> w0, logical |-> l0, rest |-> buf]
     ELSE IF Len(w.rest) > 0
          THEN LET l == DecodeUint32(w.rest)
               IN IF ~l.ok THEN [ok |-> FALSE, wall |-> w.v, logical |-> 0, rest |-> w.rest]
                  ELSE [ok |-> TRUE, wall |-> w.v, logical |-> l.v, rest |-> l.rest]
          ELSE [ok |-> TRUE, wall |-> w.v, logical |-> 0, rest |-> w.rest]

\* A DecodeKey that does not ask for the timestamp to be used up.
DecodeKeyLax(buf, ts0) ==
  LET sp == SplitKey(buf)
  IN IF ~sp.ok THEN [ok |-> FALSE, key |-> <<>>, ts |-> ts0]
     ELSE IF Len(sp.ts) > 0
          THEN LET d == DecodeTimestamp(Tail(sp.ts), ts0[1], ts0[2])
               IN [ok |-> d.ok, key |-> sp.key, ts |-> <<d.wall, d.logical>>]
          ELSE [ok |-> TRUE, key |-> sp.key, ts |-> ts0]

\* DecodeKey(buf, &key, &ts): [ok, key, ts]; ts0 is the caller's *ts.
DecodeKey(buf, ts0) ==
  LET sp == SplitKey(buf)
  IN IF ~sp.ok THEN [ok |-> FALSE, key |-> <<>>, ts |-> ts0]
     ELSE IF Len(sp.ts) > 0
          THEN LET d == DecodeTimestamp(Tail(sp.ts), ts0[1], ts0[2])
               IN [ok |-> d.ok /\ d.rest = <<>>, key |-> sp.key, ts |-> <<d.wall, d.logical>>]
          ELSE [ok |-> TRUE, key |-> sp.key, ts |-> ts0]

\* A KeyPrefix that stops at the end of the user key.
KeyPrefixUserKey(src) ==
  LET sp == SplitKey(src)
  IN IF ~sp.ok THEN src ELSE SubSeq(src, 1, Len(sp.key))

\* KeyPrefix: the user key and the NUL that follows it.
KeyPrefix(src) ==
  LET sp == SplitKey(src)
  IN IF ~sp.ok THEN src ELSE SubSeq(src, 1, Len(sp.key) + 1)

\* A comparator that orders the timestamps of a key ascending.
CompareAscending(a, b) ==
  LET sa == SplitKey(a)
      sb == SplitKey(b)
  IN IF ~sa.ok \/ ~sb.ok THEN SliceCompare(a, b)
     ELSE LET c == SliceCompare(sa.key, sb.key)
          IN IF c # 0 THEN c
             ELSE IF sa.ts = <<>> THEN (IF sb.ts = <<>> THEN 0 ELSE -1)
             ELSE IF sb.ts = <<>> THEN 1
             ELSE SliceCompare(sa.ts, sb.ts)

\* The comparison of the encoded bytes as they are.
CompareBytes(a, b) == SliceCompare(a, b)

\* DBComparator::Compare
Compare(a, b) ==
  LET sa == SplitKey(a)
      sb == SplitKey(b)
  IN IF ~sa.ok \/ ~sb.ok THEN SliceCompare(a, b)
     ELSE LET c == SliceCompare(sa.key, sb.key)
          IN IF c # 0 THEN c
             ELSE IF sa.ts = <<>> THEN (IF sb.ts = <<>> THEN 0 ELSE -1)
             ELSE IF sb.ts = <<>> THEN 1
             ELSE SliceCompare(sb.ts, sa.ts)

(***************************************************************************)
(* Values.  MVCCMetadata carries the fields db.cc reads.                   *)
(***************************************************************************)
NoMeta ==
  [has_raw |-> FALSE, raw_bytes |-> <<>>, has_txn |-> FALSE, txn_id |-> <<>>,
   txn_epoch |-> 0, timestamp |-> kZeroTimestamp,
   has_merge_timestamp |-> FALSE, merge_timestamp |-> kZeroTimestamp]

RawValue(b) == [kind |-> "raw", bytes |-> b, meta |-> NoMeta]

\* A DBString whose data pointer is NULL.
NullValue == [kind |-> "null", bytes |-> <<>>, meta |-> NoMeta]

\* MVCCMetadata::SerializeToString: a message with no field set is empty.
SerializeMeta(m) ==
  IF m = NoMeta THEN RawValue(<<>>) ELSE [kind |-> "meta", bytes |-> <<>>, meta |-> m]

\* value.size() == 0
ValueEmpty(v) == v.kind # "meta" /\ v.bytes = <<>>

\* MVCCMetadata::ParseFromArray: [ok, meta].  Zero bytes parse as the empty
\* message; plain value bytes of the model are not a valid message.
ParseFromArray(v) ==
  IF v.kind = "meta" THEN [ok |-> TRUE, meta |-> v.meta]
  ELSE IF v.bytes = <<>> THEN [ok |-> TRUE, meta |-> NoMeta]
  ELSE [ok |-> FALSE, meta |-> NoMeta]

(***************************************************************************)
(* The merge operator.  raw_bytes is a roachpb.Value: a 4-byte checksum, a *)
(* tag byte and the payload.                                               *)
(***************************************************************************)
kChecksumSize == 4
kTagPos == kChecksumSize
kHeaderSize == kTagPos + 1

\* cockroach::roachpb::ValueType
UNKNOWN == 0
BYTES == 3
TIMESERIES == 100

ValueDataBytes(val) ==
  IF Len(val) < kHeaderSize THEN <<>> ELSE SubSeq(val, kHeaderSize + 1, Len(val))

GetTag(val) == IF Len(val) < kHeaderSize THEN UNKNOWN ELSE val[kTagPos + 1]

IsTimeSeriesData(val) == GetTag(val) = TIMESERIES

\* InternalTimeSeriesData; a sample is [offset, value].
EmptyTimeSeries == [start_timestamp_nanos |-> 0, sample_duration_nanos |-> 0, samples |-> <<>>]

\* The wire form of InternalTimeSeriesData: nothing for the empty message,
\* else the start, the duration and (offset, value) for each sample.
SerializeTimeSeries(ts) ==
  IF ts = EmptyTimeSeries THEN <<>>
  ELSE <<ts.start_timestamp_nanos, ts.sample_duration_nanos>>
       \o [i \in 1..(2 * Len(ts.samples)) |->
             IF i % 2 = 1 THEN ts.samples[(i + 1) \div 2].offset
             ELSE ts.samples[i \div 2].value]

ParseTimeSeries(d) ==
  IF d = <<>> THEN [ok |-> TRUE, ts |-> EmptyTimeSeries]
  ELSE IF Len(d) < 2 \/ Len(d) % 2 = 1 THEN [ok |-> FALSE, ts |-> EmptyTimeSeries]
  ELSE [ok |-> TRUE,
        ts |-> [start_timestamp_nanos |-> d[1], sample_duration_nanos |-> d[2],
                samples |-> [i \in 1..((Len(d) - 2) \div 2) |->
                               [offset |-> d[2 * i + 1], value |-> d[2 * i + 2]]]]]

ParseProtoFromValue(val) ==
  IF Len(val) < kHeaderSize THEN [ok |-> FALSE, ts |-> EmptyTimeSeries]
  ELSE ParseTimeSeries(ValueDataBytes(val))

\* SerializeProtoToValue followed by SetTag(TIMESERIES): a zeroed header.
SerializeTimeSeriesToValue(ts) == <<0, 0, 0, 0, TIMESERIES>> \o SerializeTimeSeries(ts)

\* std::stable_sort by TimeSeriesSampleOrdering.
StableSortSamples(s) ==
  LET rank(i) == 1 + Cardinality({j \in 1..Len(s) :
                        s[j].offset < s[i].offset \/ (s[j].offset = s[i].offset /\ j < i)})
  IN [p \in 1..Len(s) |-> s[CHOOSE i \in 1..Len(s) : rank(i) = p]]

\* How many samples at the front of s carry offset off.
LeadingRun(s, off) == Cardinality({i \in 1..Len(s) : \A j \in 1..i : s[j].offset = off})

\* The merge loop of MergeTimeSeriesValues.
RECURSIVE MergeSamples(_, _)
MergeSamples(l, r) ==
  IF l = <<>> /\ r = <<>> THEN <<>>
  ELSE LET next_offset == IF l = <<>> THEN r[1].offset
                          ELSE IF r = <<>> THEN l[1].offset
                          ELSE IF l[1].offset <= r[1].offset THEN l[1].offset
                          ELSE r[1].offset
           nl == LeadingRun(l, next_offset)
           nr == LeadingRun(r, next_offset)
           src == IF nr > 0 THEN r[nr] ELSE l[nl]
       IN <<src>> \o MergeSamples(SubSeq(l, nl + 1, Len(l)), SubSeq(r, nr + 1, Len(r)))

\* [ok, val]
MergeTimeSeriesValues(left, right, full_merge) ==
  LET l == ParseProtoFromValue(left)
      r == ParseProtoFromValue(right)
  IN IF ~l.ok \/ ~r.ok THEN [ok |-> FALSE, val |-> left]
     ELSE IF l.ts.start_timestamp_nanos # r.ts.start_timestamp_nanos
             \/ l.ts.sample_duration_nanos # r.ts.sample_duration_nanos
     THEN [ok |-> FALSE, val |-> left]
     ELSE IF ~full_merge
     THEN [ok |-> TRUE,
           val |-> SerializeTimeSeriesToValue(
                     [l.ts EXCEPT !.samples = l.ts.samples \o r.ts.samples])]
     ELSE [ok |-> TRUE,
           val |-> SerializeTimeSeriesToValue(
                     [l.ts EXCEPT !.samples =
                        MergeSamples(l.ts.samples, StableSortSamples(r.ts.samples))])]

\* The loop of ConsolidateTimeSeriesValue over the sorted samples.
RECURSIVE ConsolidateSamples(_)
ConsolidateSamples(s) ==
  IF s = <<>> THEN <<>>
  ELSE LET n == LeadingRun(s, s[1].offset)
       IN <<s[n]>> \o ConsolidateSamples(SubSeq(s, n + 1, Len(s)))

\* [ok, val]
ConsolidateTimeSeriesValue(val) ==
  LET v == ParseProtoFromValue(val)
  IN IF ~v.ok THEN [ok |-> FALSE, val |-> val]
     ELSE [ok |-> TRUE,
           val |-> SerializeTimeSeriesToValue(
                     [v.ts EXCEPT !.samples = ConsolidateSamples(StableSortSamples(v.ts.samples))])]

\* A MergeValues that appends whatever the two values are.
MergeValuesAppend(left, right, full_merge) ==
  [ok |-> TRUE,
   meta |-> [left EXCEPT !.has_raw = TRUE,
                         !.raw_bytes = @ \o ValueDataBytes(right.raw_bytes)]]

\* [ok, meta]: meta is *left after the call.
MergeValues(left, right, full_merge) ==
  IF left.has_raw
  THEN IF ~right.has_raw THEN [ok |-> FALSE, meta |-> left]
       ELSE IF IsTimeSeriesData(left.raw_bytes) \/ IsTimeSeriesData(right.raw_bytes)
       THEN IF ~IsTimeSeriesData(left.raw_bytes) \/ ~IsTimeSeriesData(right.raw_bytes)
            THEN [ok |-> FALSE, meta |-> left]
            ELSE LET m == MergeTimeSeriesValues(left.raw_bytes, right.raw_bytes, full_merge)
                 IN [ok |-> m.ok, meta |-> [left EXCEPT !.raw_bytes = m.val]]
       ELSE [ok |-> TRUE,
             meta |-> [left EXCEPT !.raw_bytes = @ \o ValueDataBytes(right.raw_bytes)]]
  ELSE LET l1 == [left EXCEPT !.has_raw = TRUE, !.raw_bytes = right.raw_bytes,
                              !.has_merge_timestamp = @ \/ right.has_merge_timestamp,
                              !.merge_timestamp = IF right.has_merge_timestamp
                                                  THEN right.merge_timestamp ELSE @]
       IN IF full_merge /\ IsTimeSeriesData(l1.raw_bytes)
          THEN LET c == ConsolidateTimeSeriesValue(l1.raw_bytes)
               IN [ok |-> c.ok, meta |-> [l1 EXCEPT !.raw_bytes = c.val]]
          ELSE [ok |-> TRUE, meta |-> l1]

\* [status, value]; status "" is kSuccess.
MergeResult(meta) == [status |-> "", value |-> SerializeMeta(meta)]

DBMergeOne(existing, update) ==
  LET e == ParseFromArray(existing)
      u == ParseFromArray(update)
      m == MergeValues(e.meta, u.meta, TRUE)
  IN IF ~e.ok THEN [status |-> "corrupted existing value", value |-> NullValue]
     ELSE IF ~u.ok THEN [status |-> "corrupted update value", value |-> NullValue]
     ELSE IF ~m.ok THEN [status |-> "incompatible merge values", value |-> NullValue]
     ELSE MergeResult(m.meta)

(***************************************************************************)
(* rocksdb::Iterator over the store: a position 0..Len(store)+1, valid     *)
(* inside 1..Len(store).                                                   *)
(***************************************************************************)
IterValid(p) == p >= 1 /\ p <= Len(store)

\* Seek: the first row whose key is >= target.
SeekPosIn(rows, target) ==
  LET ge == {i \in 1..Len(rows) : Compare(rows[i].key, target) >= 0}
  IN IF ge = {} THEN Len(rows) + 1 ELSE CHOOSE i \in ge : \A j \in ge : i <= j

SeekPos(target) == SeekPosIn(store, target)

\* SeekForPrev: the last row whose key is <= target (rocksdb/iterator.h).
SeekForPrevPos(target) ==
  LET le == {i \in 1..Len(store) : Compare(store[i].key, target) <= 0}
  IN IF le = {} THEN 0 ELSE CHOOSE i \in le : \A j \in le : i >= j

SeekToFirstPos == 1
SeekToLastPos == Len(store)

(***************************************************************************)
(* mvccScanner<reverse>.  Each method is an operator from the scanner's    *)
(* fields to the fields after the call; field ret is the bool it returns.  *)
(* A method that ends in "return m(...)" hands the call m(...) back in     *)
(* field tail, and Run makes the calls handed back until one returns a     *)
(* bool; a for loop hands back its next round in the same way.             *)
(***************************************************************************)
kMaxItersBeforeSeek == 10

NoCall ==
  [method |-> "", key |-> <<>>, value |-> NullValue, ts |-> kZeroTimestamp,
   check |-> FALSE, i |-> 0]

\* mvccScanner::mvccScanner
mvccScanner(op, start, end, timestamp, max_keys, txn, consistent, reverse) ==
  [op |-> op, reverse |-> reverse, start_key |-> start, end_key |-> end,
   max_keys |-> max_keys, timestamp |-> timestamp, txn_id |-> txn.id,
   txn_epoch |-> txn.epoch, txn_max_timestamp |-> txn.max_timestamp,
   consistent |-> consistent,
   check_uncertainty |-> TsLess(timestamp, txn.max_timestamp),
   kvs |-> <<>>, intents |-> <<>>, peeked |-> FALSE,
   iters_before_seek |-> kMaxItersBeforeSeek \div 2,
   results |-> [status |-> "", uncertainty_timestamp |-> kZeroTimestamp,
                data |-> <<>>, intents |-> <<>>],
   pos |-> 0, cur_raw_key |-> <<>>, cur_key |-> <<>>, cur_value |-> NullValue,
   cur_timestamp |-> kZeroTimestamp, pc |-> "seek", ret |-> TRUE, tail |-> NoCall]

\* return b
Ret(s, b) == [s EXCEPT !.ret = b]

\* return method(args): the call is handed back; args names its arguments.
Call(s, method, args) ==
  [s EXCEPT !.tail = [f \in DOMAIN NoCall |->
                        IF f = "method" THEN method
                        ELSE IF f \in DOMAIN args THEN args[f] ELSE NoCall[f]]]

setStatus(s, status) == [s EXCEPT !.results.status = status, !.ret = FALSE]

uncertaintyError(s, ts) ==
  [s EXCEPT !.results.uncertainty_timestamp = ts, !.kvs = <<>>, !.intents = <<>>,
            !.ret = FALSE]

\* fillResults without its test of the status.
fillResultsAlways(s) == [s EXCEPT !.results.data = s.kvs, !.results.intents = s.intents]

fillResults(s) ==
  IF s.results.status = ""
  THEN [s EXCEPT !.results.data = s.kvs, !.results.intents = s.intents]
  ELSE s

\* updateCurrent at row e, d being DecodeKey of its key.
updateCurrentAt(s, e, d) ==
  IF ~d.ok
  THEN setStatus([s EXCEPT !.cur_raw_key = e.key, !.cur_value = e.value,
                           !.cur_key = d.key, !.cur_timestamp = d.ts],
                 "failed to split mvcc key")
  ELSE Ret([s EXCEPT !.cur_raw_key = e.key, !.cur_value = e.value,
                     !.cur_key = d.key, !.cur_timestamp = d.ts], TRUE)

updateCurrent(s) ==
  IF ~IterValid(s.pos) THEN Ret(s, FALSE)
  ELSE updateCurrentAt(s, store[s.pos], DecodeKey(store[s.pos].key, kZeroTimestamp))

\* A clearPeeked that leaves peeked_ as it is.
clearPeekedNever(s) == s

clearPeeked(s) == IF s.reverse THEN [s EXCEPT !.peeked = FALSE] ELSE s

iterSeek(s, key) == updateCurrent([clearPeeked(s) EXCEPT !.pos = SeekPos(key)])

iterNext(s) ==
  IF s.reverse /\ s.peeked
  THEN IF ~IterValid(s.pos + 1) THEN Ret([s EXCEPT !.peeked = FALSE, !.pos = s.pos + 1], FALSE)
       ELSE updateCurrent([s EXCEPT !.peeked = FALSE, !.pos = s.pos + 2])
  ELSE updateCurrent([s EXCEPT !.pos = s.pos + 1])

iterPrev(s) ==
  IF s.peeked THEN updateCurrent([s EXCEPT !.peeked = FALSE])
  ELSE updateCurrent([s EXCEPT !.pos = s.pos - 1])

\* The end of iterPeekPrev: the key under the iterator is split.
iterPeekPrevAt(s, pk) ==
  IF ~pk.ok THEN [s |-> setStatus(s, "failed to split mvcc key"), peeked_key |-> <<>>]
  ELSE [s |-> Ret(s, TRUE), peeked_key |-> pk.key]

\* iterPeekPrev when nothing is peeked yet; sp is SplitKey of cur_raw_key_.
iterPeekPrevSave(s, sp) ==
  IF ~sp.ok
  THEN [s |-> setStatus([s EXCEPT !.peeked = TRUE], "failed to split mvcc key"),
        peeked_key |-> <<>>]
  ELSE IF ~IterValid(s.pos - 1)
  THEN [s |-> updateCurrent([s EXCEPT !.cur_key = sp.key, !.pos = SeekToFirstPos]),
        peeked_key |-> <<>>]
  ELSE iterPeekPrevAt([s EXCEPT !.peeked = TRUE, !.cur_key = sp.key, !.pos = s.pos - 1],
                      SplitKey(store[s.pos - 1].key))

\* iterPeekPrev(&peeked_key): [s, peeked_key]
iterPeekPrev(s) ==
  IF s.peeked THEN iterPeekPrevAt(s, SplitKey(store[s.pos].key))
  ELSE iterPeekPrevSave(s, SplitKey(s.cur_raw_key))

\* backwardLatestVersion after iterPrev.
backwardLatestVersionMoved(q, key_buf, i) ==
  IF ~q.ret THEN q ELSE Call(q, "backwardLatestVersion", [key |-> key_buf, i |-> i + 1])

\* backwardLatestVersion after iterPeekPrev.
backwardLatestVersionPeeked(p, key_buf, i) ==
  IF ~p.s.ret THEN p.s
  ELSE IF p.peeked_key # key_buf
  THEN Ret([p.s EXCEPT !.iters_before_seek = Max(kMaxItersBeforeSeek, @ + 1)], TRUE)
  ELSE backwardLatestVersionMoved(iterPrev(p.s), key_buf, i)

backwardLatestVersion(s, key, i) ==
  IF i < s.iters_before_seek THEN backwardLatestVersionPeeked(iterPeekPrev(s), key, i)
  ELSE iterSeek([s EXCEPT !.iters_before_seek = Max(1, @ - 1)], key \o <<0>>)

\* iterSeekReverse after updateCurrent.
iterSeekReverseAt(u) ==
  IF ~u.ret THEN u
  ELSE IF u.cur_timestamp = kZeroTimestamp THEN Ret(u, TRUE)
  ELSE Call(u, "backwardLatestVersion", [key |-> u.cur_key, i |-> 0])

iterSeekReverse(s, key) ==
  iterSeekReverseAt(updateCurrent([clearPeeked(s) EXCEPT !.pos = SeekForPrevPos(key)]))

\* The loop of prevKey after iterPrev.
prevKeyMoved(q, key_buf, i) ==
  IF ~q.ret THEN q ELSE Call(q, "prevKeyLoop", [key |-> key_buf, i |-> i + 1])

\* The loop of prevKey after iterPeekPrev.
prevKeyPeeked(p, key_buf, i) ==
  IF ~p.s.ret THEN p.s
  ELSE IF p.peeked_key # key_buf
  THEN Call(p.s, "backwardLatestVersion", [key |-> p.peeked_key, i |-> i + 1])
  ELSE prevKeyMoved(iterPrev(p.s), key_buf, i)

prevKeyLoop(s, key_buf, i) ==
  IF i < s.iters_before_seek THEN prevKeyPeeked(iterPeekPrev(s), key_buf, i)
  ELSE Call([s EXCEPT !.iters_before_seek = Max(1, @ - 1)], "iterSeekReverse",
            [key |-> key_buf \o <<0>>])

prevKey(s, key) ==
  IF s.peeked /\ SliceCompare(store[s.pos].key, s.end_key) < 0 THEN Ret(s, FALSE)
  ELSE Call(s, "prevKeyLoop", [key |-> key, i |-> 0])

\* The loop of nextKey after iterNext.
nextKeyMoved(n, key_buf, i) ==
  IF ~n.ret THEN n
  ELSE IF n.cur_key # key_buf
  THEN Ret([n EXCEPT !.iters_before_seek = Max(kMaxItersBeforeSeek, @ + 1)], TRUE)
  ELSE Call(n, "nextKeyLoop", [key |-> key_buf, i |-> i + 1])

nextKeyLoop(s, key_buf, i) ==
  IF i < s.iters_before_seek THEN nextKeyMoved(iterNext(s), key_buf, i)
  ELSE iterSeek([s EXCEPT !.iters_before_seek = Max(1, @ - 1)], key_buf \o <<0, 0>>)

nextKey(s) ==
  IF Len(s.cur_key) + 1 = Len(s.end_key) /\ starts_with(s.end_key, s.cur_key)
     /\ s.end_key[Len(s.cur_key) + 1] = 0
  THEN Ret(s, FALSE)
  ELSE Call(s, "nextKeyLoop", [key |-> s.cur_key, i |-> 0])

\* A scanner that stops at the key it is at instead of advancing.
stopAtKey(s) == Ret(s, FALSE)

advanceKey(s) ==
  IF s.reverse THEN Call(s, "prevKey", [key |-> s.cur_key]) ELSE Call(s, "nextKey", <<>>)

\* advanceKeyAtEnd after updateCurrent.
advanceKeyAtEndAt(u) == IF ~u.ret THEN u ELSE Call(u, "advanceKey", <<>>)

advanceKeyAtEnd(s) ==
  IF s.reverse
  THEN advanceKeyAtEndAt(updateCurrent([clearPeeked(s) EXCEPT !.pos = SeekToLastPos]))
  ELSE Ret(s, FALSE)

advanceKeyAtNewKey(s, key) == IF s.reverse THEN Call(s, "prevKey", [key |-> key]) ELSE Ret(s, TRUE)

\* An addAndAdvance that does not look at max_keys_.
addAndAdvanceNoLimit(s, value) ==
  IF ~ValueEmpty(value)
  THEN Call([s EXCEPT !.kvs = Append(@, [key |-> s.cur_raw_key, value |-> value])],
            "advanceKey", <<>>)
  ELSE Call(s, "advanceKey", <<>>)

addAndAdvance(s, value) ==
  IF ~ValueEmpty(value)
  THEN IF Len(s.kvs) + 1 > s.max_keys
       THEN Ret([s EXCEPT !.kvs = Append(@, [key |-> s.cur_raw_key, value |-> value])], FALSE)
       ELSE Call([s EXCEPT !.kvs = Append(@, [key |-> s.cur_raw_key, value |-> value])],
                 "advanceKey", <<>>)
  ELSE Call(s, "advanceKey", <<>>)

\* The loop of seekVersion after iterNext; up is n with iters_before_seek_
\* raised.
seekVersionMoved(n, up, key_buf, desired_timestamp, check_uncertainty, i) ==
  IF ~n.ret THEN Call(n, "advanceKeyAtEnd", <<>>)
  ELSE IF n.cur_key # key_buf THEN Call(up, "advanceKeyAtNewKey", [key |-> key_buf])
  ELSE IF TsGreaterEq(desired_timestamp, n.cur_timestamp)
  THEN IF check_uncertainty /\ TsLess(n.timestamp, n.cur_timestamp)
       THEN uncertaintyError(up, n.cur_timestamp)
       ELSE Call(up, "addAndAdvance", [value |-> n.cur_value])
  ELSE Call(n, "seekVersionLoop", [key |-> key_buf, ts |-> desired_timestamp,
                                   check |-> check_uncertainty, i |-> i + 1])

\* The loop of seekVersion after iterNext.
seekVersionNext(n, key_buf, desired_timestamp, check_uncertainty, i) ==
  seekVersionMoved(n, [n EXCEPT !.iters_before_seek = Min(kMaxItersBeforeSeek, @ + 1)],
                   key_buf, desired_timestamp, check_uncertainty, i)

\* seekVersion after its iterSeek.
seekVersionSought(k, key_buf, desired_timestamp, check_uncertainty) ==
  IF ~k.ret THEN Call(k, "advanceKeyAtEnd", <<>>)
  ELSE IF k.cur_key # key_buf THEN Call(k, "advanceKeyAtNewKey", [key |-> key_buf])
  ELSE IF TsGreaterEq(desired_timestamp, k.cur_timestamp)
  THEN IF check_uncertainty /\ TsLess(k.timestamp, k.cur_timestamp)
       THEN uncertaintyError(k, k.cur_timestamp)
       ELSE Call(k, "addAndAdvance", [value |-> k.cur_value])
  ELSE Call(k, "advanceKey", <<>>)

seekVersionLoop(s, key_buf, desired_timestamp, check_uncertainty, i) ==
  IF i < s.iters_before_seek
  THEN seekVersionNext(iterNext(s), key_buf, desired_timestamp, check_uncertainty, i)
  ELSE seekVersionSought(
         iterSeek([s EXCEPT !.iters_before_seek = Max(1, @ - 1)],
                  EncodeKey(key_buf, desired_timestamp[1], desired_timestamp[2])),
         key_buf, desired_timestamp, check_uncertainty)

seekVersion(s, desired_timestamp, check_uncertainty) ==
  Call(s, "seekVersionLoop", [key |-> s.cur_key, ts |-> desired_timestamp,
                              check |-> check_uncertainty, i |-> 0])

\* getAndAdvance at a meta row that takes every intent of the reader's own
\* transaction as one of the reader's epoch.
getAndAdvanceMetaAnyEpoch(s, p) ==
  IF ~p.ok THEN setStatus(s, "unable to decode MVCCMetadata")
  ELSE IF p.meta.has_raw THEN Call(s, "addAndAdvance", [value |-> RawValue(p.meta.raw_bytes)])
  ELSE IF ~p.meta.has_txn THEN setStatus(s, "intent without transaction")
  ELSE IF TsLess(s.timestamp, p.meta.timestamp) /\ p.meta.txn_id # s.txn_id
  THEN Call(s, "seekVersion", [ts |-> s.timestamp, check |-> FALSE])
  ELSE IF ~s.consistent
  THEN Call([s EXCEPT !.intents = Append(@, [key |-> s.cur_raw_key, value |-> s.cur_value])],
            "seekVersion", [ts |-> PrevTimestamp(p.meta.timestamp), check |-> FALSE])
  ELSE IF p.meta.txn_id # s.txn_id
  THEN Call([s EXCEPT !.intents = Append(@, [key |-> s.cur_raw_key, value |-> s.cur_value])],
            "advanceKey", <<>>)
  ELSE Call(s, "seekVersion", [ts |-> p.meta.timestamp, check |-> FALSE])

\* getAndAdvance at a meta row; p is meta_.ParseFromArray of its value.
getAndAdvanceMeta(s, p) ==
  IF ~p.ok THEN setStatus(s, "unable to decode MVCCMetadata")
  ELSE IF p.meta.has_raw THEN Call(s, "addAndAdvance", [value |-> RawValue(p.meta.raw_bytes)])
  ELSE IF ~p.meta.has_txn THEN setStatus(s, "intent without transaction")
  ELSE IF TsLess(s.timestamp, p.meta.timestamp) /\ p.meta.txn_id # s.txn_id
  THEN Call(s, "seekVersion", [ts |-> s.timestamp, check |-> FALSE])
  ELSE IF ~s.consistent
  THEN Call([s EXCEPT !.intents = Append(@, [key |-> s.cur_raw_key, value |-> s.cur_value])],
            "seekVersion", [ts |-> PrevTimestamp(p.meta.timestamp), check |-> FALSE])
  ELSE IF p.meta.txn_id # s.txn_id
  THEN Call([s EXCEPT !.intents = Append(@, [key |-> s.cur_raw_key, value |-> s.cur_value])],
            "advanceKey", <<>>)
  ELSE IF s.txn_epoch = p.meta.txn_epoch
  THEN Call(s, "seekVersion", [ts |-> p.meta.timestamp, check |-> FALSE])
  ELSE IF s.txn_epoch < p.meta.txn_epoch
  THEN setStatus(s, "failed to read with epoch due to a write intent with epoch")
  ELSE Call(s, "seekVersion", [ts |-> PrevTimestamp(p.meta.timestamp), check |-> FALSE])

getAndAdvance(s) ==
  IF s.cur_timestamp # kZeroTimestamp
  THEN IF TsGreaterEq(s.timestamp, s.cur_timestamp)
       THEN Call(s, "addAndAdvance", [value |-> s.cur_value])
       ELSE IF s.check_uncertainty
       THEN IF TsGreaterEq(s.txn_max_timestamp, s.cur_timestamp)
            THEN uncertaintyError(s, s.cur_timestamp)
            ELSE Call(s, "seekVersion", [ts |-> s.txn_max_timestamp, check |-> TRUE])
       ELSE Call(s, "seekVersion", [ts |-> s.timestamp, check |-> FALSE])
  ELSE getAndAdvanceMeta(s, ParseFromArray(s.cur_value))

\* The method handed back in s.tail, called on s.
Called(s, c) ==
  CASE c.method = "advanceKey" -> advanceKey(s)
    [] c.method = "advanceKeyAtEnd" -> advanceKeyAtEnd(s)
    [] c.method = "advanceKeyAtNewKey" -> advanceKeyAtNewKey(s, c.key)
    [] c.method = "nextKey" -> nextKey(s)
    [] c.method = "nextKeyLoop" -> nextKeyLoop(s, c.key, c.i)
    [] c.method = "prevKey" -> prevKey(s, c.key)
    [] c.method = "prevKeyLoop" -> prevKeyLoop(s, c.key, c.i)
    [] c.method = "backwardLatestVersion" -> backwardLatestVersion(s, c.key, c.i)
    [] c.method = "iterSeekReverse" -> iterSeekReverse(s, c.key)
    [] c.method = "addAndAdvance" -> addAndAdvance(s, c.value)
    [] c.method = "seekVersion" -> seekVersion(s, c.ts, c.check)
    [] c.method = "seekVersionLoop" -> seekVersionLoop(s, c.key, c.ts, c.check, c.i)

\* The scanner when the method called has returned.
RECURSIVE Run(_)
Run(s) ==
  IF s.tail.method = "" THEN s ELSE Run(Called([s EXCEPT !.tail = NoCall], s.tail))

(***************************************************************************)
(* DBBatch: a rocksdb::WriteBatchWithIndex over the store.  batch is the   *)
(* write batch, its entries [type, key, value] in insertion order; index   *)
(* is the skip list over them, ordered by key and, within a key, by        *)
(* insertion.  A WBWIIterator walks index; its position is the place of    *)
(* its entry in index, 0 when it is not Valid.                             *)
(***************************************************************************)
\* DBBatch::DBBatch
NewBatch ==
  [open |-> TRUE, updates |-> 0, has_delete_range |-> FALSE, batch |-> <<>>, index |-> <<>>]

\* No DBBatch: none was made, or it was closed.
NoBatch == [NewBatch EXCEPT !.open = FALSE]

\* WriteBatchWithIndex adds the entry to the batch and to the index, behind
\* the entries of the index whose key is not greater.
AddOrUpdateIndex(b, e) ==
  LET n == Cardinality({i \in 1..Len(b.index) : Compare(b.index[i].key, e.key) <= 0})
  IN [b EXCEPT !.batch = Append(@, e),
               !.index = SubSeq(@, 1, n) \o <<e>> \o SubSeq(@, n + 1, Len(@))]

DeltaSeekToFirst(entries) == IF Len(entries) = 0 THEN 0 ELSE 1
DeltaSeekToLast(entries) == Len(entries)
DeltaNext(entries, d) == IF d + 1 > Len(entries) THEN 0 ELSE d + 1
DeltaPrev(entries, d) == d - 1

DeltaSeek(entries, k) ==
  LET lt == Cardinality({i \in 1..Len(entries) : Compare(entries[i].key, k) < 0})
  IN IF lt = Len(entries) THEN 0 ELSE lt + 1

\* IteratorGetter::Get: [status, value] of the row the base iterator is at,
\* or of no row when the getter holds NULL.
IteratorGetter(rows, pos, use_base) ==
  [status |-> "", value |-> IF use_base THEN rows[pos].value ELSE NullValue]

\* The value of a row whose merge operands the merge operator refused:
\* rocksdb::DB::Get of its key ends in Corruption.
Unmergeable == [kind |-> "unmergeable", bytes |-> <<>>, meta |-> NoMeta]

\* DBGetter::Get at the rows of the key.
DBGetterAt(rows, at) ==
  IF at = {} THEN [status |-> "", value |-> NullValue]
  ELSE IF rows[CHOOSE i \in at : TRUE].value = Unmergeable
  THEN [status |-> "Corruption: Error: Could not perform merge.", value |-> NullValue]
  ELSE [status |-> "", value |-> rows[CHOOSE i \in at : TRUE].value]

\* A DBGetter::Get that finds no key.
DBGetterNothing(rows, key) == DBGetterAt(rows, {})

\* DBGetter::Get: [status, value]; a missing key is success with NULL data.
DBGetter(rows, key) == DBGetterAt(rows, {i \in 1..Len(rows) : rows[i].key = key})

\* The loop of ProcessDeltaKey from delta position d with count entries done.
\* ToDBString never yields NULL data (malloc(0) is taken to return a pointer).
RECURSIVE ProcessDeltaKeyLoop(_, _, _, _, _, _)
ProcessDeltaKeyLoop(base, entries, d, key, value, count) ==
  IF d # 0 /\ entries[d].key = key
  THEN LET entry == entries[d]
           next == DeltaNext(entries, d)
       IN CASE entry.type = "Put" ->
                 ProcessDeltaKeyLoop(base, entries, next, key, entry.value, count + 1)
            [] entry.type = "Merge" ->
                 LET existing == IF count = 0 THEN base.value ELSE value
                     m == DBMergeOne(existing, entry.value)
                 IN IF count = 0 /\ base.status # ""
                    THEN [status |-> base.status, value |-> NullValue, d |-> d]
                    ELSE IF existing.kind # "null"
                    THEN IF m.status # ""
                         THEN [status |-> m.status, value |-> NullValue, d |-> d]
                         ELSE ProcessDeltaKeyLoop(base, entries, next, key, m.value, count + 1)
                    ELSE ProcessDeltaKeyLoop(base, entries, next, key, entry.value, count + 1)
            [] entry.type = "Delete" ->
                 ProcessDeltaKeyLoop(base, entries, next, key, NullValue, count + 1)
            [] OTHER ->
                 ProcessDeltaKeyLoop(base, entries, next, key, value, count + 1)
  ELSE IF count > 0 THEN [status |-> "", value |-> value, d |-> d]
  ELSE [status |-> base.status, value |-> base.value, d |-> d]

\* ProcessDeltaKey that never reads the base: its first entry is handled as
\* a later one.
ProcessDeltaKeyNoBase(base, entries, d, key) ==
  ProcessDeltaKeyLoop(base, entries, d, key, NullValue, 1)

\* [status, value, d]: d is where the delta iterator is left.
ProcessDeltaKey(base, entries, d, key) ==
  ProcessDeltaKeyLoop(base, entries, d, key, NullValue, 0)

\* EncodeKey(DBKey)
EncodeDBKey(k) == EncodeKey(k.key, k.wall_time, k.logical)

DBBatch_Put(b, key, value) ==
  AddOrUpdateIndex([b EXCEPT !.updates = @ + 1],
                   [type |-> "Put", key |-> EncodeDBKey(key), value |-> value])

DBBatch_Merge(b, key, value) ==
  AddOrUpdateIndex([b EXCEPT !.updates = @ + 1],
                   [type |-> "Merge", key |-> EncodeDBKey(key), value |-> value])

DBBatch_Delete(b, key) ==
  AddOrUpdateIndex([b EXCEPT !.updates = @ + 1],
                   [type |-> "Delete", key |-> EncodeDBKey(key), value |-> NullValue])

DBBatch_DeleteRange(b, start, end) ==
  AddOrUpdateIndex([b EXCEPT !.updates = @ + 1, !.has_delete_range = TRUE],
                   [type |-> "DeleteRange", key |-> EncodeDBKey(start),
                    value |-> RawValue(EncodeDBKey(end))])

\* rocksdb::WriteBatch::Iterate over the records of repr with a
\* DBBatchInserter: every record is added to the batch again (PutCF,
\* DeleteCF, MergeCF and DeleteRangeCF call batch_->Put, Delete, Merge and
\* DeleteRange); the status is Corruption when the count in the header of
\* repr is not the number of its records.
RECURSIVE DBBatchInserterLoop(_, _)
DBBatchInserterLoop(b, records) ==
  IF records = <<>> THEN b
  ELSE DBBatchInserterLoop(AddOrUpdateIndex(b, Head(records)), Tail(records))

DBBatchInserter(b, repr) ==
  [status |-> IF repr.count = Len(repr.records) THEN ""
              ELSE "Corruption: WriteBatch has wrong count",
   b |-> DBBatchInserterLoop(b, repr.records)]

\* [status, b]
DBBatch_ApplyBatchRepr(b, repr, sync) ==
  IF sync THEN [status |-> "unsupported", b |-> b]
  ELSE LET r == DBBatchInserter(b, repr)
       IN IF r.status # "" THEN r
          ELSE [status |-> "", b |-> [r.b EXCEPT !.updates = @ + repr.count]]

\* [status, value]
DBBatch_GetAt(r) == [status |-> r.status, value |-> r.value]

DBBatch_Get(b, rows, key) ==
  IF b.updates = 0 THEN DBGetter(rows, EncodeDBKey(key))
  ELSE IF b.has_delete_range
  THEN [status |-> "cannot read from a batch containing delete range entries",
        value |-> NullValue]
  ELSE DBBatch_GetAt(ProcessDeltaKey(DBGetter(rows, EncodeDBKey(key)), b.index,
                                     DeltaSeek(b.index, EncodeDBKey(key)),
                                     EncodeDBKey(key)))

(***************************************************************************)
(* rocksdb::DB (rep) as the engines use it.  rows are its contents as a    *)
(* read finds them: one row for each live key, ordered by DBComparator,    *)
(* the merge operands of a key folded by DBMergeOperator::FullMerge as     *)
(* they arrive.                                                            *)
(***************************************************************************)
\* DBMergeOperator::MergeOne: [ok, meta]
MergeOne(meta, operand, full_merge) ==
  IF ~ParseFromArray(operand).ok THEN [ok |-> FALSE, meta |-> meta]
  ELSE MergeValues(meta, ParseFromArray(operand).meta, full_merge)

\* The loop of FullMerge over operand_list: [ok, meta]
RECURSIVE FullMergeLoop(_, _)
FullMergeLoop(m, operand_list) ==
  IF ~m.ok \/ operand_list = <<>> THEN m
  ELSE FullMergeLoop(MergeOne(m.meta, Head(operand_list), TRUE), Tail(operand_list))

\* FullMerge after its loop: [ok, value]
FullMergeAt(m) ==
  [ok |-> m.ok, value |-> IF m.ok THEN SerializeMeta(m.meta) ELSE NullValue]

\* DBMergeOperator::FullMerge: [ok, value]; existing_value NULL is NullValue.
FullMerge(existing_value, operand_list) ==
  IF existing_value.kind # "null" /\ ~ParseFromArray(existing_value).ok
  THEN [ok |-> FALSE, value |-> NullValue]
  ELSE FullMergeAt(FullMergeLoop(
         [ok |-> TRUE,
          meta |-> IF existing_value.kind = "null" THEN NoMeta
                   ELSE ParseFromArray(existing_value).meta],
         operand_list))

\* rows without the row of key k.
Erase(rows, k) == SelectSeq(rows, LAMBDA r : r.key # k)

\* rows with row r put at its place in the order of the comparator.
Insert(rows, r) ==
  SelectSeq(rows, LAMBDA x : Compare(x.key, r.key) < 0) \o <<r>>
  \o SelectSeq(rows, LAMBDA x : Compare(x.key, r.key) > 0)

\* rep->Put
rep_Put(rows, k, v) == Insert(rows, [key |-> k, value |-> v])

\* rep->Delete
rep_Delete(rows, k) == Erase(rows, k)

\* rep->DeleteRange: the keys in [start, end) of the comparator go.
rep_DeleteRange(rows, start, end) ==
  SelectSeq(rows, LAMBDA r : ~(Compare(r.key, start) >= 0 /\ Compare(r.key, end) < 0))

\* The value a key has once the merge operator has run; m is its FullMerge.
Merged(m) == IF m.ok THEN m.value ELSE Unmergeable

\* rep->Merge: the operand joins the value of the key.  A key whose merge
\* failed stays so under further operands.
rep_Merge(rows, k, v) ==
  IF DBGetter(rows, k).status # "" THEN rows
  ELSE Insert(rows, [key |-> k, value |-> Merged(FullMerge(DBGetter(rows, k).value, <<v>>))])

\* One record of a rocksdb::WriteBatch applied to the rows.
rep_WriteRecord(rows, e) ==
  CASE e.type = "Put" -> rep_Put(rows, e.key, e.value)
    [] e.type = "Merge" -> rep_Merge(rows, e.key, e.value)
    [] e.type = "Delete" -> rep_Delete(rows, e.key)
    [] e.type = "DeleteRange" -> rep_DeleteRange(rows, e.key, e.value.bytes)

\* rep->Write: the records of the write batch, in the order they were added.
RECURSIVE rep_Write(_, _)
rep_Write(rows, records) ==
  IF records = <<>> THEN rows
  ELSE rep_Write(rep_WriteRecord(rows, Head(records)), Tail(records))

(***************************************************************************)
(* DBImpl, the rest of DBBatch, DBWriteOnlyBatch and DBSnapshot.           *)
(***************************************************************************)
DBImpl_Put(rows, key, value) == rep_Put(rows, EncodeDBKey(key), value)

DBImpl_Merge(rows, key, value) == rep_Merge(rows, EncodeDBKey(key), value)

DBImpl_Delete(rows, key) == rep_Delete(rows, EncodeDBKey(key))

DBImpl_DeleteRange(rows, start, end) ==
  rep_DeleteRange(rows, EncodeDBKey(start), EncodeDBKey(end))

\* [status, value]
DBImpl_Get(rows, key) == DBGetter(rows, EncodeDBKey(key))

\* A CommitBatch that writes the entries as the index of the batch orders
\* them, by key, and not as they were added.
CommitBatchIndexOrder(b, rows, sync) ==
  IF b.updates = 0 THEN [status |-> "", rows |-> rows]
  ELSE [status |-> "", rows |-> rep_Write(rows, b.index)]

\* [status, rows]: the status handed back and the rows of the DB after it.
DBBatch_CommitBatch(b, rows, sync) ==
  IF b.updates = 0 THEN [status |-> "", rows |-> rows]
  ELSE [status |-> "", rows |-> rep_Write(rows, b.batch)]

\* DBWriteOnlyBatch::DBWriteOnlyBatch
NewWriteOnlyBatch == [open |-> TRUE, updates |-> 0, batch |-> <<>>]

\* No DBWriteOnlyBatch: none was made, or it was closed.
NoWriteOnlyBatch == [NewWriteOnlyBatch EXCEPT !.open = FALSE]

DBWriteOnlyBatch_Put(w, key, value) ==
  [w EXCEPT !.updates = @ + 1,
            !.batch = Append(@, [type |-> "Put", key |-> EncodeDBKey(key), value |-> value])]

DBWriteOnlyBatch_Merge(w, key, value) ==
  [w EXCEPT !.updates = @ + 1,
            !.batch = Append(@, [type |-> "Merge", key |-> EncodeDBKey(key), value |-> value])]

DBWriteOnlyBatch_Delete(w, key) ==
  [w EXCEPT !.updates = @ + 1,
            !.batch = Append(@, [type |-> "Delete", key |-> EncodeDBKey(key),
                                 value |-> NullValue])]

DBWriteOnlyBatch_DeleteRange(w, start, end) ==
  [w EXCEPT !.updates = @ + 1,
            !.batch = Append(@, [type |-> "DeleteRange", key |-> EncodeDBKey(start),
                                 value |-> RawValue(EncodeDBKey(end))])]

\* [status, rows]
DBWriteOnlyBatch_CommitBatch(w, rows, sync) ==
  IF w.updates = 0 THEN [status |-> "", rows |-> rows]
  ELSE [status |-> "", rows |-> rep_Write(rows, w.batch)]

\* [status, value]
DBWriteOnlyBatch_Get(w, key) == [status |-> "unsupported", value |-> NullValue]

\* No DBSnapshot; also the DBIterator of a snapshot before NewIter.  iter is
\* the rocksdb iterator of the DBIterator: the rows it reads and its place.
NoSnapshot ==
  [open |-> FALSE, snapshot |-> <<>>, iter |-> [open |-> FALSE, rows |-> <<>>, pos |-> 0]]

\* DBNewSnapshot: rep->GetSnapshot() holds the rows of the DB as they are.
DBSnapshot(rows) == [NoSnapshot EXCEPT !.open = TRUE, !.snapshot = rows]

\* A DBSnapshot::Get without read_opts.snapshot: it reads the DB as it is.
SnapshotGetLive(s, rows, key) == DBGetter(rows, EncodeDBKey(key))

\* [status, value]
DBSnapshot_Get(s, rows, key) == DBGetter(s.snapshot, EncodeDBKey(key))

\* rep->NewIterator with read_opts.snapshot set.
DBSnapshot_NewIter(s, rows) ==
  [s EXCEPT !.iter = [open |-> TRUE, rows |-> s.snapshot, pos |-> 0]]

\* DBIterGetState: [valid, key, value] of a DBIterator over rows at pos; the
\* state is zeroed, and key and value are set for a key that decodes.
DBIterGetStateAt(valid, d, v) ==
  IF valid /\ d.ok
  THEN [valid |-> TRUE, key |-> [key |-> d.key, wall_time |-> d.ts[1], logical |-> d.ts[2]],
        value |-> v]
  ELSE [valid |-> FALSE, key |-> [key |-> <<>>, wall_time |-> 0, logical |-> 0],
        value |-> NullValue]

DBIterGetState(i) ==
  IF i.pos >= 1 /\ i.pos <= Len(i.rows)
  THEN DBIterGetStateAt(TRUE, DecodeKey(i.rows[i.pos].key, kZeroTimestamp),
                        i.rows[i.pos].value)
  ELSE DBIterGetStateAt(FALSE, DecodeKey(<<>>, kZeroTimestamp), NullValue)

\* DBIterSeek and DBIterNext(iter, false) on the rocksdb iterator i.
DBIterSeek(i, key) == [i EXCEPT !.pos = SeekPosIn(i.rows, EncodeDBKey(key))]

DBIterNext(i) == [i EXCEPT !.pos = @ + 1]

(***************************************************************************)
(* BaseDeltaIterator.  base is the rocksdb iterator of the store made at   *)
(* NewIter: the rows it reads, its position bpos, and the prefix it is     *)
(* held to when read_opts.prefix_same_as_start is set.  d is the position  *)
(* of the WBWIIterator over the entries of the batch.                      *)
(***************************************************************************)
\* No DBIterator (NULL); also the fields of a BaseDeltaIterator as constructed.
NoIter ==
  [open |-> FALSE, base |-> <<>>, bpos |-> 0, base_bounded |-> FALSE, base_prefix |-> <<>>,
   d |-> 0, current_at_base |-> TRUE, equal_keys |-> FALSE, status |-> "",
   merged |-> NullValue, delta_key |-> <<>>, prefix_same_as_start |-> FALSE,
   prefix_start_key |-> <<>>]

\* A DBBatch::NewIter whose base iterator reads no row of the store.
NewIterEmptyBase(b, rows, prefix_same_as_start) ==
  IF b.has_delete_range THEN NoIter
  ELSE [NoIter EXCEPT !.open = TRUE, !.prefix_same_as_start = prefix_same_as_start]

DBBatch_NewIter(b, rows, prefix_same_as_start) ==
  IF b.has_delete_range THEN NoIter
  ELSE [NoIter EXCEPT !.open = TRUE, !.base = rows,
                      !.prefix_same_as_start = prefix_same_as_start]

BaseValid(i) ==
  /\ i.bpos >= 1 /\ i.bpos <= Len(i.base)
  /\ i.base_bounded => KeyPrefix(i.base[i.bpos].key) = i.base_prefix

DeltaValid(i) == i.d # 0

Valid(i) == i.status = "" /\ (IF i.current_at_base THEN BaseValid(i) ELSE DeltaValid(i))

key(i) == IF i.current_at_base THEN i.base[i.bpos].key ELSE i.delta_key

value(i) == IF i.current_at_base THEN i.base[i.bpos].value ELSE i.merged

ClearMerged(i) == [i EXCEPT !.merged = NullValue]

AdvanceBase(i) == [i EXCEPT !.bpos = @ + 1]

AdvanceDelta(i, entries) == ClearMerged([i EXCEPT !.d = DeltaNext(entries, i.d)])

CheckPrefix(i, k) == KeyPrefix(k) # i.prefix_start_key

\* ProcessDelta after its call of ProcessDeltaKey, which gave r.
ProcessDeltaAt(i, entries, delta_key, r) ==
  IF r.status # ""
  THEN [it |-> [i EXCEPT !.delta_key = delta_key, !.merged = r.value, !.d = r.d,
                         !.status = "Corruption: unable to merge records"],
        deleted |-> FALSE]
  ELSE [it |-> [i EXCEPT !.delta_key = delta_key, !.merged = r.value,
                         !.d = IF r.d # 0 THEN DeltaPrev(entries, r.d)
                               ELSE DeltaSeekToLast(entries)],
        deleted |-> r.value.kind = "null"]

\* [it, deleted]: the iterator after the call and the bool it returns.
ProcessDelta(i, entries) ==
  ProcessDeltaAt(i, entries, entries[i.d].key,
                 ProcessDeltaKey(IteratorGetter(i.base, i.bpos, i.equal_keys),
                                 entries, i.d, entries[i.d].key))

\* The delta iterator has moved on and, when the keys were equal, the base
\* iterator with it.
AdvanceBoth(a) == IF a.equal_keys THEN AdvanceBase(a) ELSE a

RECURSIVE UpdateCurrentLoop(_, _, _)

\* UpdateCurrent after ProcessDelta, which gave p, at a delta key not above
\* the base key.
UpdateCurrentAtDelta(p, entries, check_prefix) ==
  IF ~p.deleted THEN [p.it EXCEPT !.current_at_base = FALSE]
  ELSE UpdateCurrentLoop(AdvanceBoth(AdvanceDelta(p.it, entries)), entries, check_prefix)

\* UpdateCurrent where both iterators are valid; compare is of their keys.
UpdateCurrentBoth(i, entries, check_prefix, compare) ==
  IF compare > 0 THEN [i EXCEPT !.current_at_base = TRUE]
  ELSE UpdateCurrentAtDelta(ProcessDelta([i EXCEPT !.equal_keys = (compare = 0)], entries),
                            entries, check_prefix)

\* A round of the loop of UpdateCurrent, equal_keys_ being false.
UpdateCurrentRound(i, entries, check_prefix) ==
  IF ~BaseValid(i)
  THEN IF ~DeltaValid(i) THEN i
       ELSE IF check_prefix /\ CheckPrefix(i, entries[i.d].key)
       THEN [i EXCEPT !.current_at_base = TRUE]
       ELSE UpdateCurrentAtDelta(ProcessDelta(i, entries), entries, check_prefix)
  ELSE IF ~DeltaValid(i) THEN [i EXCEPT !.current_at_base = TRUE]
  ELSE UpdateCurrentBoth(i, entries, check_prefix,
                         Compare(entries[i.d].key, i.base[i.bpos].key))

\* The loop of UpdateCurrent.
UpdateCurrentLoop(i, entries, check_prefix) ==
  UpdateCurrentRound([i EXCEPT !.equal_keys = FALSE], entries, check_prefix)

\* UpdateCurrent without the check of the prefix.
UpdateCurrentNoPrefixCheck(i, entries, check_prefix) ==
  UpdateCurrentLoop(ClearMerged(i), entries, FALSE)

UpdateCurrent(i, entries, check_prefix) ==
  UpdateCurrentLoop(ClearMerged(i), entries, check_prefix)

MaybeSavePrefixStart(i) ==
  IF i.prefix_same_as_start
  THEN [i EXCEPT !.prefix_start_key = IF Valid(i) THEN KeyPrefix(key(i)) ELSE <<>>]
  ELSE i

\* The base iterator's SeekToFirst; with prefix_same_as_start it is then
\* held to the prefix of the row it found.
BaseSeekToFirst(i) ==
  [i EXCEPT !.bpos = 1,
            !.base_bounded = i.prefix_same_as_start /\ Len(i.base) >= 1,
            !.base_prefix = IF Len(i.base) >= 1 THEN KeyPrefix(i.base[1].key) ELSE <<>>]

\* The base iterator's Seek; with prefix_same_as_start it is held to the
\* prefix of the target.
BaseSeek(i, k) ==
  [i EXCEPT !.bpos = SeekPosIn(i.base, k),
            !.base_bounded = i.prefix_same_as_start,
            !.base_prefix = KeyPrefix(k)]

SeekToFirst(i, entries) ==
  MaybeSavePrefixStart(
    UpdateCurrent([BaseSeekToFirst(i) EXCEPT !.d = DeltaSeekToFirst(entries)],
                  entries, FALSE))

\* The end of Seek: MaybeSavePrefixStart keeps the prefix only of a Valid
\* iterator.
SeekAt(u) ==
  IF u.prefix_same_as_start /\ ~Valid(u) THEN [u EXCEPT !.prefix_start_key = <<>>] ELSE u

Seek(i, entries, k) ==
  SeekAt(UpdateCurrent(
           [BaseSeek(i, k) EXCEPT !.d = DeltaSeek(entries, k),
                                  !.prefix_start_key = IF i.prefix_same_as_start
                                                       THEN KeyPrefix(k) ELSE @],
           entries, i.prefix_same_as_start))

\* Advance without the case of equal keys, in which both iterators move.
AdvanceOneSide(i, entries) ==
  UpdateCurrent(IF i.current_at_base THEN AdvanceBase(i) ELSE AdvanceDelta(i, entries),
                entries, i.prefix_same_as_start)

Advance(i, entries) ==
  UpdateCurrent(IF i.equal_keys THEN AdvanceDelta(AdvanceBase(i), entries)
                ELSE IF i.current_at_base THEN AdvanceBase(i)
                ELSE AdvanceDelta(i, entries),
                entries, i.prefix_same_as_start)

\* Next; it is called on a Valid iterator only (rocksdb::Iterator::Next
\* requires Valid()).
Next(i, entries) == Advance(i, entries)

(***************************************************************************)
(* The user keys, transactions and call results the explored runs use.     *)
(***************************************************************************)
KeyA == <<1>>
KeyB == <<2>>
KeyC == <<3>>

\* Transaction ids: X is the reader's own transaction, Y a foreign one.
TxnX == <<88>>
TxnY == <<89>>
NoTxn == [id |-> <<>>, epoch |-> 0, max_timestamp |-> kZeroTimestamp]

\* What the last DBGet / DBApplyBatchRepr handed back; also the value
\* before any call.
NoGot == [status |-> "", value |-> NullValue]

\* No call of the key codec.
NoCodec == [op |-> "", keys |-> <<>>, buf |-> <<>>, out |-> <<>>]

(***************************************************************************)
(* The calls on one DBBatch over a store, and on the iterator it hands out. *)
(***************************************************************************)
\* A roachpb.Value of tag BYTES with the payload given, inside MVCCMetadata.
BytesValue(payload) ==
  SerializeMeta([NoMeta EXCEPT !.has_raw = TRUE,
                               !.raw_bytes = <<0, 0, 0, 0, BYTES>> \o payload])

Hello == BytesValue(<<104>>)
World == BytesValue(<<119>>)
\* Bytes that are no MVCCMetadata.
Corrupt == RawValue(<<9>>)

MetaKey(k) == [key |-> k, wall_time |-> 0, logical |-> 0]

\* The keys the batch is written at and read at.
BatchKeys == {MetaKey(KeyA), MetaKey(KeyB)}

\* The stores under the batch.
BatchStores ==
  { <<>>,
    <<[key |-> EncodeKey(KeyA, 0, 0), value |-> Hello],
      [key |-> EncodeKey(KeyA, 3, 0), value |-> RawValue(<<1, 3>>)],
      [key |-> EncodeKey(KeyC, 0, 0), value |-> Hello]>>,
    <<[key |-> EncodeKey(KeyA, 0, 0), value |-> Corrupt],
      [key |-> EncodeKey(KeyB, 0, 0), value |-> World]>> }

\* The batch representations handed to ApplyBatchRepr: [count, records].
BatchReprs ==
  { [count |-> 1,
     records |-> <<[type |-> "DeleteRange", key |-> EncodeKey(KeyA, 0, 0),
                    value |-> RawValue(EncodeKey(KeyC, 0, 0))]>>],
    [count |-> 2,
     records |-> <<[type |-> "Put", key |-> EncodeKey(KeyB, 0, 0), value |-> Hello]>>] }

\* The batch holds at most this many entries.
MaxBatchLen == 3

\* The batch is written to while no iterator of it is open; DBGet is
\* called then, too (it reads nothing of an iterator).
CanWrite(n) == batch.open /\ ~it.open /\ Len(batch.batch) + n <= MaxBatchLen

IdleScanner == mvccScanner("scan", <<>>, <<>>, kZeroTimestamp, 0, NoTxn, TRUE, FALSE)

Init ==
  /\ store \in BatchStores
  /\ batch = NewBatch
  /\ it = NoIter
  /\ got = NoGot
  /\ sc = IdleScanner
  /\ seq = 0
  /\ wo = NoWriteOnlyBatch
  /\ snap = NoSnapshot
  /\ codec = NoCodec

BatchPut ==
  /\ CanWrite(1)
  /\ \E k \in BatchKeys : batch' = DBBatch_Put(batch, k, Hello)
  /\ got' = NoGot
  /\ UNCHANGED <<store, sc, it, others>>

BatchMerge ==
  /\ CanWrite(1)
  /\ batch' = DBBatch_Merge(batch, MetaKey(KeyA), World)
  /\ got' = NoGot
  /\ UNCHANGED <<store, sc, it, others>>

BatchDelete ==
  /\ CanWrite(1)
  /\ batch' = DBBatch_Delete(batch, MetaKey(KeyA))
  /\ got' = NoGot
  /\ UNCHANGED <<store, sc, it, others>>

BatchDeleteRange ==
  /\ CanWrite(1)
  /\ batch' = DBBatch_DeleteRange(batch, MetaKey(KeyA), MetaKey(KeyC))
  /\ got' = NoGot
  /\ UNCHANGED <<store, sc, it, others>>

BatchApplyBatchRepr ==
  /\ \E repr \in BatchReprs, sync \in BOOLEAN :
       /\ CanWrite(Len(repr.records))
       /\ LET r == DBBatch_ApplyBatchRepr(batch, repr, sync)
          IN batch' = r.b /\ got' = [status |-> r.status, value |-> NullValue]
  /\ UNCHANGED <<store, sc, it, others>>

BatchGet ==
  /\ batch.open /\ ~it.open
  /\ \E k \in BatchKeys \cup {MetaKey(KeyC)} : got' = DBBatch_Get(batch, store, k)
  /\ UNCHANGED <<store, sc, batch, it, others>>

BatchNewIter ==
  /\ batch.open /\ ~it.open
  /\ \E prefix_same_as_start \in BOOLEAN :
       it' = DBBatch_NewIter(batch, store, prefix_same_as_start)
  /\ got' = NoGot
  /\ UNCHANGED <<store, sc, batch, others>>

\* The keys an iterator is sought to.
SeekKeys == {EncodeKey(KeyA, 0, 0), EncodeKey(KeyB, 0, 0), EncodeKey(KeyC, 0, 0)}

OverlaySeek ==
  /\ it.open
  /\ \E k \in SeekKeys : it' = Seek(it, batch.index, k)
  /\ UNCHANGED <<store, sc, batch, got, others>>

OverlaySeekToFirst ==
  /\ it.open
  /\ it' = SeekToFirst(it, batch.index)
  /\ UNCHANGED <<store, sc, batch, got, others>>

OverlayNext ==
  /\ it.open /\ Valid(it)
  /\ it' = Next(it, batch.index)
  /\ UNCHANGED <<store, sc, batch, got, others>>

\* DBIterDestroy
OverlayDestroy ==
  /\ it.open
  /\ it' = NoIter
  /\ UNCHANGED <<store, sc, batch, got, others>>

Next_ ==
  \/ BatchPut \/ BatchMerge \/ BatchDelete \/ BatchDeleteRange \/ BatchApplyBatchRepr
  \/ BatchGet \/ BatchNewIter
  \/ OverlaySeek \/ OverlaySeekToFirst \/ OverlayNext \/ OverlayDestroy

Spec == Init /\ [][Next_]_vars

(***************************************************************************)
(* The overlay of a batch on the store, stated from the batch's entries in *)
(* insertion order.                                                        *)
(***************************************************************************)
HasDeleteRange == \E i \in 1..Len(batch.batch) : batch.batch[i].type = "DeleteRange"

\* The entries of the batch at key k, in insertion order.
EntriesOf(k) == SelectSeq(batch.batch, LAMBDA e : e.key = k)

StoreValue(k) ==
  IF \E i \in 1..Len(store) : store[i].key = k
  THEN store[CHOOSE i \in 1..Len(store) : store[i].key = k].value
  ELSE NullValue

\* The left fold of entries es into acc = [status, value].
RECURSIVE FoldLeft(_, _)
FoldLeft(acc, es) ==
  IF es = <<>> \/ acc.status # "" THEN acc
  ELSE LET e == Head(es)
       IN FoldLeft(CASE e.type = "Put" -> [status |-> "", value |-> e.value]
                     [] e.type = "Delete" -> [status |-> "", value |-> NullValue]
                     [] e.type = "Merge" ->
                          IF acc.value.kind = "null" THEN [status |-> "", value |-> e.value]
                          ELSE DBMergeOne(acc.value, e.value)
                     [] OTHER -> acc,
                   Tail(es))

\* What the overlay holds at key k: the base value folded with the entries.
Folded(k) == FoldLeft([status |-> "", value |-> StoreValue(k)], EntriesOf(k))

ViewKeys ==
  {store[i].key : i \in 1..Len(store)} \cup {batch.batch[i].key : i \in 1..Len(batch.batch)}

\* Iterator i is at the first key of cands that the overlay holds: at it
\* with the overlay's value, in error when its fold fails, and not Valid when
\* there is none.
Lands(i, cands) ==
  LET live == {x \in cands : Folded(x).status # "" \/ Folded(x).value.kind # "null"}
  IN IF live = {} THEN ~Valid(i) /\ i.status = ""
     ELSE LET x == CHOOSE x \in live : \A y \in live : Compare(x, y) <= 0
          IN IF Folded(x).status # "" THEN i.status # ""
             ELSE Valid(i) /\ key(i) = x /\ value(i) = Folded(x).value

\* C8: on a batch of puts, merges and deletes, SeekToFirst puts the overlay
\* iterator on the first key of the merged view, Seek on the first key of
\* it at or after the target, and Next on the first key of it after the
\* current one; the value is the batch's result for the key, and a key the
\* batch deletes is passed over.  (Iteration without prefix_same_as_start.)
C8_OverlayIteratorMergedView ==
  [][(it.open /\ ~it.prefix_same_as_start /\ it.status = "" /\ ~HasDeleteRange) =>
       /\ OverlaySeekToFirst => Lands(it', ViewKeys)
       /\ \A k \in SeekKeys :
            (it' = Seek(it, batch.index, k) /\ UNCHANGED batch) =>
               Lands(it', {x \in ViewKeys : Compare(x, k) >= 0})
       /\ OverlayNext => Lands(it', {x \in ViewKeys : Compare(x, key(it)) > 0})]_vars

C8_Witness ==
  /\ it.open /\ ~it.prefix_same_as_start /\ Valid(it) /\ it.current_at_base
  /\ key(it) = EncodeKey(KeyC, 0, 0)
  /\ ~HasDeleteRange
  /\ StoreValue(EncodeKey(KeyA, 0, 0)) = Hello
  /\ EntriesOf(EncodeKey(KeyA, 0, 0)) # <<>>
  /\ Folded(EncodeKey(KeyA, 0, 0)).value = NullValue
  /\ EntriesOf(EncodeKey(KeyB, 0, 0)) # <<>>

\* An iterator that is at a key of the batch holds the fold of the key's
\* entries and has its delta iterator on the last of them.
AtFoldedKey(i) ==
  (i.open /\ Valid(i) /\ ~i.current_at_base) =>
     /\ i.merged = Folded(i.delta_key).value
     /\ batch.index[i.d].key = i.delta_key
     /\ i.d < Len(batch.index) => batch.index[i.d + 1].key # i.delta_key

\* C9: delta processing folds the entries of the key in insertion order,
\* left to right, starting from the base value: Put replaces, Delete clears,
\* Merge merges (base "h" and Merge "w" give "hw"); the delta iterator is
\* then on the last entry of the key, and Next leaves the key.  (Every
\* state of an open iterator has a step, DBIterDestroy at least, so what
\* is said of the state a step starts in is said of all of them.)
C9_DeltaFoldInInsertionOrder ==
  [][~HasDeleteRange =>
       /\ AtFoldedKey(it)
       /\ (~it.open /\ batch.updates # 0 /\ UNCHANGED <<batch, it>>) =>
             \A k \in BatchKeys \cup {MetaKey(KeyC)} :
               got' = DBBatch_Get(batch, store, k)
                  => IF Folded(EncodeDBKey(k)).status = "" THEN got' = Folded(EncodeDBKey(k))
                     ELSE got'.status # ""
       /\ (it.open /\ ~it.current_at_base /\ OverlayNext /\ Valid(it')) =>
             Compare(key(it'), key(it)) > 0
       /\ (it.open /\ Valid(it) /\ ~it.current_at_base
           /\ StoreValue(EncodeKey(KeyA, 0, 0)) = Hello
           /\ batch.batch = <<[type |-> "Merge", key |-> EncodeKey(KeyA, 0, 0),
                               value |-> World]>>)
             => value(it) = BytesValue(<<104, 119>>)]_vars

C9_Witness ==
  /\ it.open /\ Valid(it) /\ ~it.current_at_base
  /\ it.merged = BytesValue(<<104, 119>>)
  /\ Len(EntriesOf(it.delta_key)) >= 2
  /\ it.d < Len(batch.index)
  /\ ~HasDeleteRange

\* C10: once the batch holds a DeleteRange entry, however it got there, Get
\* on the batch fails and NewIter hands out no iterator.
C10_DeleteRangeRejectsReads ==
  [][HasDeleteRange =>
       /\ BatchGet => got'.status # ""
       /\ BatchNewIter => ~it'.open]_vars

\* C10 for the DeleteRange entries written by DBBatch::DeleteRange.
C10_OwnDeleteRangeRejectsReads ==
  [][batch.has_delete_range =>
       /\ BatchGet => got'.status # ""
       /\ BatchNewIter => ~it'.open]_vars

(***************************************************************************)
(* The stores and the calls of MVCCGet / MVCCScan that are explored.       *)
(***************************************************************************)
\* The value bytes written for user key k at timestamp ts.
ValueAt(k, ts) == k \o <<ts[1], ts[2] % 256>>

\* One version row; tombs are the timestamps whose value is a deletion
\* tombstone (zero bytes).
VersionRow(k, ts, tombs) ==
  [key |-> EncodeKey(k, ts[1], ts[2]),
   value |-> RawValue(IF ts \in tombs THEN <<>> ELSE ValueAt(k, ts))]

\* The version rows of k at the timestamps tss (newest first).
VersionRows(k, tss, tombs) == [i \in 1..Len(tss) |-> VersionRow(k, tss[i], tombs)]

\* The meta row of an intent of transaction id at epoch, timestamp ts.
IntentRow(k, id, epoch, ts) ==
  [key |-> EncodeKey(k, 0, 0),
   value |-> SerializeMeta([NoMeta EXCEPT !.has_txn = TRUE, !.txn_id = id,
                                          !.txn_epoch = epoch, !.timestamp = ts])]

\* The meta row of an inline value.
InlineRow(k, bytes) ==
  [key |-> EncodeKey(k, 0, 0),
   value |-> SerializeMeta([NoMeta EXCEPT !.has_raw = TRUE, !.raw_bytes = bytes])]

\* Wall times n, n-1, .., 1 as timestamps.
Walls(n) == [i \in 1..n |-> <<n + 1 - i, 0>>]

\* Number of versions of a key with a long history: more than the initial
\* iters_before_seek_, so that seekVersion falls back to Seek.
LongVersions == 7

\* The epochs an intent of the explored stores can carry.
MaxEpoch == 3

\* The rows a user key can have: versions only, an intent above its
\* provisional version and older versions, or an inline value.
PlainShapes(k) ==
  { <<>>,
    VersionRows(k, <<<<5, 0>>, <<3, 0>>>>, {}),
    VersionRows(k, <<<<5, 0>>, <<3, 0>>>>, {<<5, 0>>}),
    VersionRows(k, <<<<3, 1>>, <<3, 0>>>>, {}),
    VersionRows(k, Walls(LongVersions), {}),
    <<InlineRow(k, <<7>>)>> }

IntentShapes(k) ==
  { <<IntentRow(k, TxnY, 1, <<7, 0>>)>> \o VersionRows(k, <<<<7, 0>>, <<5, 0>>, <<3, 0>>>>, {}),
    <<IntentRow(k, TxnY, 1, <<7, 0>>)>> \o VersionRows(k, Walls(LongVersions), {}),
    <<IntentRow(k, TxnY, 1, <<3, 1>>)>> \o VersionRows(k, <<<<3, 1>>, <<3, 0>>>>, {}),
    <<IntentRow(k, TxnY, 1, <<0, 1>>)>> \o VersionRows(k, <<<<0, 1>>>>, {}),
    <<IntentRow(k, TxnX, 1, <<0, 1>>)>> \o VersionRows(k, <<<<0, 1>>>>, {}) }
  \cup { <<IntentRow(k, TxnX, e, <<7, 0>>)>> \o VersionRows(k, <<<<7, 0>>, <<3, 0>>>>, tombs) :
           e \in 1..MaxEpoch, tombs \in {{}, {<<7, 0>>}} }

\* A store whose first two keys have histories long enough to drive
\* iters_before_seek_ down to 1 before the third key is reached.
DrainRows ==
  VersionRows(KeyA, Walls(LongVersions + 4), {})
  \o SubSeq(VersionRows(KeyB, Walls(LongVersions + 2), {}), 1, LongVersions)

Stores ==
  { a \o b \o c : a \in PlainShapes(KeyA) \cup IntentShapes(KeyA),
                  b \in {<<>>, VersionRows(KeyB, <<<<5, 0>>, <<3, 0>>>>, {}),
                         <<IntentRow(KeyB, TxnY, 1, <<3, 0>>)>>
                           \o VersionRows(KeyB, <<<<3, 0>>>>, {})},
                  c \in {<<>>, VersionRows(KeyC, <<<<4, 0>>>>, {})} }
  \cup { DrainRows \o c : c \in IntentShapes(KeyC) }

\* The larger of the two max_keys a scan is given: above the number of keys.
MaxKeys == 10

ReadTimestamps == {<<0, 0>>, <<3, 0>>, <<5, 0>>, <<8, 0>>}

\* The transactions a read is made for: none, or X at epoch 2 with
\* max_timestamp equal to the read timestamp or above it.
Txns(T) ==
  {NoTxn} \cup {[id |-> TxnX, epoch |-> 2, max_timestamp |-> m] : m \in {T, <<6, 0>>}}

ScanInit ==
  /\ store \in Stores
  /\ \E T \in ReadTimestamps, consistent \in BOOLEAN, reverse \in BOOLEAN :
       \E txn \in Txns(T) :
         sc \in {mvccScanner("scan", IF reverse THEN <<4>> ELSE KeyA,
                             IF reverse THEN KeyA ELSE <<4>>,
                             T, max_keys, txn, consistent, reverse) :
                   max_keys \in {1, MaxKeys}}
                \cup (IF reverse THEN {}
                      ELSE {mvccScanner("get", KeyA, <<>>, T, 0, txn, consistent, FALSE)})
  /\ batch = NoBatch
  /\ it = NoIter
  /\ got = NoGot
  /\ seq = 0
  /\ wo = NoWriteOnlyBatch
  /\ snap = NoSnapshot
  /\ codec = NoCodec

\* scan() keeps calling getAndAdvance while the current key is in range.
InRange(s) ==
  IF s.reverse THEN SliceCompare(s.cur_key, s.end_key) >= 0
  ELSE SliceCompare(s.cur_key, s.end_key) < 0

\* get() / scan() after the seek to start_key_.
Sought(u) ==
  [u EXCEPT !.pc = IF ~u.ret THEN "done"
                   ELSE IF (IF u.op = "get" THEN u.cur_key = u.start_key ELSE InRange(u))
                   THEN "loop" ELSE "fill"]

\* scan() after a call of getAndAdvance.
Advanced(g) ==
  [g EXCEPT !.pc = IF g.op = "scan" /\ g.ret /\ InRange(g) THEN "loop" ELSE "fill"]

\* get() / scan() up to the first getAndAdvance.
ScanSeek ==
  /\ sc.pc = "seek"
  /\ sc' = Sought(IF sc.op = "scan" /\ sc.reverse
                   THEN Run(iterSeekReverse(sc, EncodeKey(sc.start_key, 0, 0)))
                   ELSE iterSeek(sc, EncodeKey(sc.start_key, 0, 0)))
  /\ UNCHANGED <<store, batch, it, got, others>>

\* One call of getAndAdvance and the test that follows it.
ScanStep ==
  /\ sc.pc = "loop"
  /\ sc' = Advanced(Run(getAndAdvance(sc)))
  /\ UNCHANGED <<store, batch, it, got, others>>

\* return fillResults()
ScanFill ==
  /\ sc.pc = "fill"
  /\ sc' = [fillResults(sc) EXCEPT !.pc = "done"]
  /\ UNCHANGED <<store, batch, it, got, others>>

ScanNext == ScanSeek \/ ScanStep \/ ScanFill

SpecScan == ScanInit /\ [][ScanNext]_vars

(***************************************************************************)
(* What the store holds for a user key.                                    *)
(***************************************************************************)
\* The rows of the versions of user key k.
VersionsOf(k) ==
  {i \in 1..Len(store) :
     LET d == DecodeKey(store[i].key, kZeroTimestamp)
     IN d.ok /\ d.key = k /\ d.ts # kZeroTimestamp}

RowTs(i) == DecodeKey(store[i].key, kZeroTimestamp).ts

\* The rows holding the meta key of k (at most one).
MetaRowsOf(k) == {i \in 1..Len(store) : store[i].key = EncodeKey(k, 0, 0)}

HasIntent(k) == \E i \in MetaRowsOf(k) : store[i].value.meta.has_txn
HasInline(k) == \E i \in MetaRowsOf(k) : store[i].value.meta.has_raw
IntentOf(k) == store[CHOOSE i \in MetaRowsOf(k) : TRUE].value.meta

\* The versions of k that "pick" accepts, and the row emitted for the newest
\* of them: none when there is no such version or its value is empty.
NewestRow(k, cands) ==
  IF cands = {} THEN <<>>
  ELSE LET i == CHOOSE x \in cands : \A y \in cands : TsLessEq(RowTs(y), RowTs(x))
       IN IF ValueEmpty(store[i].value) THEN <<>> ELSE <<store[i]>>

AtOrBelow(k, T) == NewestRow(k, {i \in VersionsOf(k) : TsLessEq(RowTs(i), T)})
StrictlyBelow(k, T) == NewestRow(k, {i \in VersionsOf(k) : TsLess(RowTs(i), T)})

\* getAndAdvance is about to run on user key sc.cur_key.
AtKey == sc.pc = "loop"

\* C1: a forward scan or get without uncertainty checking emits, for a key
\* with no intent or with a foreign intent above the read timestamp, exactly
\* the newest version at or below the read timestamp (nothing when there is
\* none or its value is empty), whatever iters_before_seek_ is.
C1_NewestVersionAtOrBelowT ==
  [][(/\ AtKey /\ ~sc.reverse /\ ~sc.check_uncertainty
      /\ ~HasInline(sc.cur_key)
      /\ HasIntent(sc.cur_key) =>
           /\ IntentOf(sc.cur_key).txn_id # sc.txn_id
           /\ TsLess(sc.timestamp, IntentOf(sc.cur_key).timestamp))
     => sc'.kvs = sc.kvs \o AtOrBelow(sc.cur_key, sc.timestamp)]_vars

\* The same away from the zero read timestamp.
C1_AwayFromZeroTimestamp ==
  [][(/\ AtKey /\ ~sc.reverse /\ ~sc.check_uncertainty /\ sc.timestamp # kZeroTimestamp
      /\ ~HasInline(sc.cur_key)
      /\ HasIntent(sc.cur_key) =>
           /\ IntentOf(sc.cur_key).txn_id # sc.txn_id
           /\ TsLess(sc.timestamp, IntentOf(sc.cur_key).timestamp))
     => sc'.kvs = sc.kvs \o AtOrBelow(sc.cur_key, sc.timestamp)]_vars

\* The user keys of the store.
UserKeys == {DecodeKey(store[i].key, kZeroTimestamp).key : i \in 1..Len(store)}

MetaRow(k) == store[CHOOSE i \in MetaRowsOf(k) : TRUE]
OwnIntent(k) == HasIntent(k) /\ IntentOf(k).txn_id = sc.txn_id
ForeignIntent(k) == HasIntent(k) /\ IntentOf(k).txn_id # sc.txn_id

\* The versions of k other than the provisional one of its intent.
CommittedVersionsOf(k) ==
  {i \in VersionsOf(k) : ~(HasIntent(k) /\ RowTs(i) = IntentOf(k).timestamp)}

\* The committed versions of k inside the reader's uncertainty interval.
UncertainVersionsOf(k) ==
  {i \in CommittedVersionsOf(k) :
     TsLess(sc.timestamp, RowTs(i)) /\ TsLessEq(RowTs(i), sc.txn_max_timestamp)}

UncertaintyResult(s) ==
  /\ s.results.status = ""
  /\ s.results.uncertainty_timestamp # kZeroTimestamp
  /\ s.kvs = <<>> /\ s.intents = <<>>

\* C2: a read with T < txn.max_timestamp that visits a key with a committed
\* version in (T, max_timestamp] ends with an uncertainty result at the
\* timestamp of such a version, with no rows and no intents; keys carrying
\* an intent included.
C2_UncertaintyOnAnyKey ==
  [][(AtKey /\ sc.check_uncertainty /\ UncertainVersionsOf(sc.cur_key) # {})
     => /\ sc'.pc = "fill"
        /\ UncertaintyResult(sc')
        /\ \E i \in UncertainVersionsOf(sc.cur_key) :
             sc'.results.uncertainty_timestamp = RowTs(i)]_vars

\* The same for keys that carry no intent.
C2_UncertaintyWithoutIntent ==
  [][(/\ AtKey /\ sc.check_uncertainty /\ UncertainVersionsOf(sc.cur_key) # {}
      /\ ~HasIntent(sc.cur_key))
     => /\ sc'.pc = "fill"
        /\ UncertaintyResult(sc')
        /\ \E i \in UncertainVersionsOf(sc.cur_key) :
             sc'.results.uncertainty_timestamp = RowTs(i)]_vars

\* C3: a consistent read by X at an intent of X with X's epoch emits the
\* provisional value stored at the intent's timestamp, whatever the read
\* timestamp, and does not record the intent.
C3_OwnIntentSameEpoch ==
  [][(/\ AtKey /\ sc.consistent /\ OwnIntent(sc.cur_key)
      /\ IntentOf(sc.cur_key).txn_epoch = sc.txn_epoch)
     => /\ sc'.kvs = sc.kvs \o NewestRow(sc.cur_key,
                        {i \in VersionsOf(sc.cur_key) :
                           RowTs(i) = IntentOf(sc.cur_key).timestamp})
        /\ sc'.intents = sc.intents
        /\ sc'.results.status = ""]_vars

C3_Witness ==
  /\ sc.pc = "done" /\ sc.consistent /\ OwnIntent(KeyA)
  /\ IntentOf(KeyA).txn_epoch = sc.txn_epoch
  /\ TsLess(sc.timestamp, IntentOf(KeyA).timestamp)
  /\ \E j \in 1..Len(sc.results.data) :
       sc.results.data[j].key = EncodeKey(KeyA, IntentOf(KeyA).timestamp[1],
                                          IntentOf(KeyA).timestamp[2])
  /\ sc.results.intents = <<>>

EpochMismatch == "failed to read with epoch due to a write intent with epoch"

\* C4: a consistent read by X at epoch e at an intent of X with a greater
\* epoch ends at once with the epoch-mismatch status, and the result that
\* is handed back carries no rows and no intents.
C4_OwnIntentNewerEpoch ==
  [][/\ (/\ AtKey /\ sc.consistent /\ OwnIntent(sc.cur_key)
         /\ IntentOf(sc.cur_key).txn_epoch > sc.txn_epoch)
        => (sc'.pc = "fill" /\ sc'.results.status = EpochMismatch)
     /\ (sc.pc = "fill" /\ sc.results.status = EpochMismatch)
        => (sc'.pc = "done" /\ sc'.results.status = EpochMismatch
            /\ sc'.results.data = <<>> /\ sc'.results.intents = <<>>)]_vars

C4_Witness ==
  /\ sc.pc = "done" /\ sc.consistent /\ sc.results.status = EpochMismatch
  /\ \E k \in UserKeys : OwnIntent(k) /\ IntentOf(k).txn_epoch > sc.txn_epoch
  /\ sc.kvs # <<>>
  /\ sc.results.data = <<>> /\ sc.results.intents = <<>>

\* C5: a consistent read by X at epoch e at an intent of X with a smaller
\* epoch ignores the intent without error: it emits the newest version
\* strictly older than the intent's timestamp (nothing when there is none)
\* and goes on with another key.
C5_OwnIntentOlderEpoch ==
  [][(/\ AtKey /\ sc.consistent /\ OwnIntent(sc.cur_key)
      /\ IntentOf(sc.cur_key).txn_epoch < sc.txn_epoch)
     => /\ sc'.kvs = sc.kvs \o StrictlyBelow(sc.cur_key, IntentOf(sc.cur_key).timestamp)
        /\ sc'.intents = sc.intents
        /\ sc'.results.status = ""
        /\ sc'.pc = "loop" => sc'.cur_key # sc.cur_key]_vars

\* The same for intents whose timestamp is not the least one, (0,1).
C5_AwayFromZeroTimestamp ==
  [][(/\ AtKey /\ sc.consistent /\ OwnIntent(sc.cur_key)
      /\ IntentOf(sc.cur_key).txn_epoch < sc.txn_epoch
      /\ IntentOf(sc.cur_key).timestamp # <<0, 1>>)
     => /\ sc'.kvs = sc.kvs \o StrictlyBelow(sc.cur_key, IntentOf(sc.cur_key).timestamp)
        /\ sc'.intents = sc.intents
        /\ sc'.results.status = ""
        /\ sc'.pc = "loop" => sc'.cur_key # sc.cur_key]_vars

\* C6: an inconsistent read at T >= intent_ts records the intent (its meta
\* key and metadata) and emits the newest version strictly older than the
\* intent's timestamp, never the provisional value.
C6_InconsistentReadAtIntent ==
  [][(/\ AtKey /\ ~sc.consistent /\ HasIntent(sc.cur_key)
      /\ TsGreaterEq(sc.timestamp, IntentOf(sc.cur_key).timestamp))
     => /\ sc'.intents = sc.intents \o <<MetaRow(sc.cur_key)>>
        /\ sc'.kvs = sc.kvs \o StrictlyBelow(sc.cur_key, IntentOf(sc.cur_key).timestamp)]_vars

\* The same for intents whose timestamp is not the least one, (0,1).
C6_AwayFromZeroTimestamp ==
  [][(/\ AtKey /\ ~sc.consistent /\ HasIntent(sc.cur_key)
      /\ TsGreaterEq(sc.timestamp, IntentOf(sc.cur_key).timestamp)
      /\ IntentOf(sc.cur_key).timestamp # <<0, 1>>)
     => /\ sc'.intents = sc.intents \o <<MetaRow(sc.cur_key)>>
        /\ sc'.kvs = sc.kvs \o StrictlyBelow(sc.cur_key, IntentOf(sc.cur_key).timestamp)]_vars

\* Neither an error status nor an uncertainty timestamp.
Success(s) == s.results.status = "" /\ s.results.uncertainty_timestamp = kZeroTimestamp

\* The keys of [start, end) on which getAndAdvance has run when the read
\* reaches fillResults: all of them, or those up to the key whose row made
\* the count exceed max_keys.
VisitedInRange(s) ==
  LET lo == IF s.reverse THEN s.end_key ELSE s.start_key
      hi == IF s.reverse THEN s.start_key ELSE s.end_key
      in == {k \in UserKeys : SliceCompare(lo, k) <= 0 /\ SliceCompare(k, hi) < 0}
  IN IF s.op = "get" THEN {k \in UserKeys : k = s.start_key}
     ELSE IF Len(s.kvs) <= s.max_keys THEN in
     ELSE IF s.reverse THEN {k \in in : SliceCompare(k, s.cur_key) >= 0}
     ELSE {k \in in : SliceCompare(k, s.cur_key) <= 0}

\* C7: a consistent read at a foreign intent with intent_ts <= T emits
\* nothing for the key, records the intent and goes on; a read that ends in
\* success hands back every such intent of the keys it visited in
\* [start, end), each exactly once.
C7_ForeignIntentsCollected ==
  [][/\ (/\ AtKey /\ sc.consistent /\ ForeignIntent(sc.cur_key)
         /\ TsLessEq(IntentOf(sc.cur_key).timestamp, sc.timestamp))
        => /\ sc'.kvs = sc.kvs
           /\ sc'.intents = sc.intents \o <<MetaRow(sc.cur_key)>>
           /\ sc'.results.status = ""
           /\ sc'.pc = "loop" => sc'.cur_key # sc.cur_key
     /\ (sc.pc = "fill" /\ sc.consistent /\ Success(sc))
        => \A k \in VisitedInRange(sc) :
             (ForeignIntent(k) /\ TsLessEq(IntentOf(k).timestamp, sc.timestamp))
             => /\ Cardinality({j \in 1..Len(sc'.results.intents) :
                                  sc'.results.intents[j].key = EncodeKey(k, 0, 0)}) = 1
                /\ \E j \in 1..Len(sc'.results.intents) :
                     sc'.results.intents[j] = MetaRow(k)]_vars

C7_Witness ==
  /\ sc.pc = "done" /\ sc.consistent /\ Success(sc)
  /\ Len(sc.results.intents) = 2
  /\ \A k \in {KeyA, KeyB} :
       ForeignIntent(k) /\ TsLessEq(IntentOf(k).timestamp, sc.timestamp)

(***************************************************************************)
(* Batches committed to the store.  DBNewBatch(db, writeOnly) has made one *)
(* batch, indexed or write-only; it is written to, and                     *)
(* DBCommitAndCloseBatch commits and closes it.  DBGet reads the store.    *)
(***************************************************************************)
\* The DB takes this many writes.
MaxSeq == 3

CommitInit ==
  /\ store \in BatchStores
  /\ \E writeOnly \in BOOLEAN :
       /\ batch = IF writeOnly THEN NoBatch ELSE NewBatch
       /\ wo = IF writeOnly THEN NewWriteOnlyBatch ELSE NoWriteOnlyBatch
  /\ it = NoIter
  /\ got = NoGot
  /\ sc = IdleScanner
  /\ seq = 0
  /\ snap = NoSnapshot
  /\ codec = NoCodec

WriteOnlyCanWrite(n) == wo.open /\ Len(wo.batch) + n <= MaxBatchLen

WriteOnlyPut ==
  /\ WriteOnlyCanWrite(1)
  /\ \E k \in BatchKeys : wo' = DBWriteOnlyBatch_Put(wo, k, Hello)
  /\ got' = NoGot
  /\ UNCHANGED <<store, sc, batch, it, seq, snap, codec>>

WriteOnlyMerge ==
  /\ WriteOnlyCanWrite(1)
  /\ wo' = DBWriteOnlyBatch_Merge(wo, MetaKey(KeyA), World)
  /\ got' = NoGot
  /\ UNCHANGED <<store, sc, batch, it, seq, snap, codec>>

WriteOnlyDelete ==
  /\ WriteOnlyCanWrite(1)
  /\ wo' = DBWriteOnlyBatch_Delete(wo, MetaKey(KeyA))
  /\ got' = NoGot
  /\ UNCHANGED <<store, sc, batch, it, seq, snap, codec>>

WriteOnlyDeleteRange ==
  /\ WriteOnlyCanWrite(1)
  /\ wo' = DBWriteOnlyBatch_DeleteRange(wo, MetaKey(KeyA), MetaKey(KeyC))
  /\ got' = NoGot
  /\ UNCHANGED <<store, sc, batch, it, seq, snap, codec>>

\* DBGet on the write-only batch.
WriteOnlyGet ==
  /\ wo.open
  /\ \E k \in BatchKeys : got' = DBWriteOnlyBatch_Get(wo, k)
  /\ UNCHANGED <<store, sc, batch, it, seq, wo, snap, codec>>

\* DBCommitAndCloseBatch on the indexed batch: the status is success, so the
\* batch is closed.  No iterator of the batch is open.
BatchCommit ==
  /\ batch.open /\ ~it.open
  /\ seq + Len(batch.batch) <= MaxSeq
  /\ \E sync \in BOOLEAN :
       /\ store' = DBBatch_CommitBatch(batch, store, sync).rows
       /\ got' = [status |-> DBBatch_CommitBatch(batch, store, sync).status,
                  value |-> NullValue]
  /\ seq' = IF batch.updates = 0 THEN seq ELSE seq + Len(batch.batch)
  /\ batch' = NoBatch
  /\ UNCHANGED <<sc, it, wo, snap, codec>>

\* DBCommitAndCloseBatch on the write-only batch.
WriteOnlyCommit ==
  /\ wo.open
  /\ seq + Len(wo.batch) <= MaxSeq
  /\ \E sync \in BOOLEAN :
       /\ store' = DBWriteOnlyBatch_CommitBatch(wo, store, sync).rows
       /\ got' = [status |-> DBWriteOnlyBatch_CommitBatch(wo, store, sync).status,
                  value |-> NullValue]
  /\ seq' = IF wo.updates = 0 THEN seq ELSE seq + Len(wo.batch)
  /\ wo' = NoWriteOnlyBatch
  /\ UNCHANGED <<sc, batch, it, snap, codec>>

\* The keys the store is read at through DBImpl.
StoreKeys == BatchKeys \cup {MetaKey(KeyC), [key |-> KeyA, wall_time |-> 3, logical |-> 0]}

\* DBGet on the DBImpl.
StoreGet ==
  /\ \E k \in StoreKeys : got' = DBImpl_Get(store, k)
  /\ UNCHANGED <<store, sc, batch, it, seq, wo, snap, codec>>

CommitNext ==
  \/ BatchPut \/ BatchMerge \/ BatchDelete \/ BatchDeleteRange
  \/ WriteOnlyPut \/ WriteOnlyMerge \/ WriteOnlyDelete \/ WriteOnlyDeleteRange
  \/ WriteOnlyGet \/ BatchCommit \/ WriteOnlyCommit \/ StoreGet

SpecCommit == CommitInit /\ [][CommitNext]_vars

\* The value the rows hold for the encoded key k; NullValue when they hold
\* none.
RowValue(rows, k) ==
  IF \E i \in 1..Len(rows) : rows[i].key = k
  THEN rows[CHOOSE i \in 1..Len(rows) : rows[i].key = k].value
  ELSE NullValue

\* What record e of a write batch makes of value v of the encoded key k.
RecordOn(v, e, k) ==
  CASE e.type = "Put" /\ e.key = k -> e.value
    [] e.type = "Delete" /\ e.key = k -> NullValue
    [] e.type = "DeleteRange" /\ Compare(k, e.key) >= 0 /\ Compare(k, e.value.bytes) < 0 ->
         NullValue
    [] e.type = "Merge" /\ e.key = k ->
         IF v = Unmergeable THEN v ELSE Merged(FullMerge(v, <<e.value>>))
    [] OTHER -> v

\* Value v of the encoded key k after the records es, first to last.
RECURSIVE RecordsOn(_, _, _)
RecordsOn(v, es, k) ==
  IF es = <<>> THEN v ELSE RecordsOn(RecordOn(v, Head(es), k), Tail(es), k)

\* The rows are in the strict order of the comparator.
Ordered(rows) == \A i \in 1..(Len(rows) - 1) : Compare(rows[i].key, rows[i + 1].key) < 0

\* The encoded keys a store of the runs can hold.
RowKeys == {EncodeDBKey(k) : k \in StoreKeys}

\* The store after the step holds, for every key, what the records make of
\* the value it held before, and nothing else.
Applied(records) ==
  /\ Ordered(store')
  /\ \A i \in 1..Len(store') : store'[i].key \in RowKeys
  /\ \A k \in RowKeys : RowValue(store', k) = RecordsOn(RowValue(store, k), records, k)

SnapshotInit ==
  /\ store \in BatchStores
  /\ batch = NewBatch
  /\ wo = NoWriteOnlyBatch
  /\ it = NoIter
  /\ got = NoGot
  /\ sc = IdleScanner
  /\ seq = 0
  /\ snap = NoSnapshot
  /\ codec = NoCodec

\* DBPut, DBMerge, DBDelete and DBDeleteRange on the DBImpl.
StorePut ==
  /\ seq < MaxSeq
  /\ store' = DBImpl_Put(store, MetaKey(KeyB), World)
  /\ seq' = seq + 1
  /\ got' = NoGot
  /\ UNCHANGED <<sc, batch, it, wo, snap, codec>>

StoreMerge ==
  /\ seq < MaxSeq
  /\ store' = DBImpl_Merge(store, MetaKey(KeyB), Hello)
  /\ seq' = seq + 1
  /\ got' = NoGot
  /\ UNCHANGED <<sc, batch, it, wo, snap, codec>>

StoreDelete ==
  /\ seq < MaxSeq
  /\ store' = DBImpl_Delete(store, MetaKey(KeyA))
  /\ seq' = seq + 1
  /\ got' = NoGot
  /\ UNCHANGED <<sc, batch, it, wo, snap, codec>>

StoreDeleteRange ==
  /\ seq < MaxSeq
  /\ store' = DBImpl_DeleteRange(store, MetaKey(KeyA), MetaKey(KeyC))
  /\ seq' = seq + 1
  /\ got' = NoGot
  /\ UNCHANGED <<sc, batch, it, wo, snap, codec>>

\* DBNewSnapshot
NewSnapshot ==
  /\ ~snap.open
  /\ snap' = DBSnapshot(store)
  /\ got' = NoGot
  /\ UNCHANGED <<store, sc, batch, it, seq, wo, codec>>

\* DBGet on the snapshot.
SnapshotGet ==
  /\ snap.open
  /\ \E k \in BatchKeys : got' = DBSnapshot_Get(snap, store, k)
  /\ UNCHANGED <<store, sc, batch, it, seq, wo, snap, codec>>

\* DBNewIter on the snapshot.
SnapshotNewIter ==
  /\ snap.open /\ ~snap.iter.open
  /\ snap' = DBSnapshot_NewIter(snap, store)
  /\ got' = NoGot
  /\ UNCHANGED <<store, sc, batch, it, seq, wo, codec>>

\* DBIterSeek and DBIterNext on the iterator of the snapshot.
SnapshotIterSeek ==
  /\ snap.open /\ snap.iter.open
  /\ \E k \in BatchKeys :
       snap' = [snap EXCEPT !.iter = DBIterSeek(snap.iter, k)]
  /\ got' = NoGot
  /\ UNCHANGED <<store, sc, batch, it, seq, wo, codec>>

SnapshotIterNext ==
  /\ snap.open /\ snap.iter.open /\ DBIterGetState(snap.iter).valid
  /\ snap' = [snap EXCEPT !.iter = DBIterNext(snap.iter)]
  /\ got' = NoGot
  /\ UNCHANGED <<store, sc, batch, it, seq, wo, codec>>

SnapshotNext ==
  \/ StorePut \/ StoreMerge \/ StoreDelete \/ StoreDeleteRange
  \/ BatchMerge \/ BatchCommit
  \/ NewSnapshot \/ SnapshotGet
  \/ SnapshotNewIter \/ SnapshotIterSeek \/ SnapshotIterNext

SpecSnapshot == SnapshotInit /\ [][SnapshotNext]_vars

\* What an iterator hands back from its place to the end: the states of
\* DBIterGetState under DBIterNext, while valid.
RECURSIVE IterStates(_, _)
IterStates(i, state) ==
  IF ~state.valid THEN <<>>
  ELSE <<state>> \o IterStates(DBIterNext(i), DBIterGetState(DBIterNext(i)))

\* The key every key of the store sorts after.
FirstKey == MetaKey(<<>>)

\* What iteration from the first key on hands back on the iterator i.
Iterated(i) == IterStates(DBIterSeek(i, FirstKey), DBIterGetState(DBIterSeek(i, FirstKey)))

\* C12: a snapshot taken of the store reads, by Get and by iteration, what
\* the store holds at that moment; and while the snapshot is open no step
\* (Put, Merge, Delete, DeleteRange on the store, a batch commit, or any
\* other) changes what Get on the snapshot returns for any key, what a new
\* iterator on it returns, or what its open iterator returns from its
\* place on.
C12_SnapshotReadsAsOfCreation ==
  [][/\ (~snap.open /\ snap'.open) =>
          /\ \A k \in StoreKeys : DBSnapshot_Get(snap', store', k) = DBImpl_Get(store, k)
          /\ Iterated(DBSnapshot_NewIter(snap', store').iter)
               = Iterated([open |-> TRUE, rows |-> store, pos |-> 0])
     /\ (snap.open /\ snap'.open /\ (store' # store \/ snap' # snap)) =>
          /\ \A k \in StoreKeys :
               DBSnapshot_Get(snap', store', k) = DBSnapshot_Get(snap, store, k)
          /\ Iterated(DBSnapshot_NewIter(snap', store').iter)
               = Iterated(DBSnapshot_NewIter(snap, store).iter)
     /\ (snap.open /\ snap'.open /\ snap.iter.open /\ store' # store) =>
          /\ snap'.iter.open
          /\ IterStates(snap'.iter, DBIterGetState(snap'.iter))
               = IterStates(snap.iter, DBIterGetState(snap.iter))]_vars

\* The snapshot was taken of a store holding Hello at key A, the store has
\* lost key A since, Get on the snapshot returns Hello for it, and the
\* iterator of the snapshot stands on key A.
C12_Witness ==
  /\ snap.open /\ snap.iter.open
  /\ DBImpl_Get(store, MetaKey(KeyA)).value = NullValue
  /\ DBSnapshot_Get(snap, store, MetaKey(KeyA)).value = Hello
  /\ DBIterGetState(snap.iter).valid
  /\ DBIterGetState(snap.iter).key = MetaKey(KeyA)

(***************************************************************************)
(* The iterator of a batch while the store is written to.  DBNewBatch has  *)
(* made the batch; the DB is written to directly before and after          *)
(* DBNewIter on the batch.                                                 *)
(***************************************************************************)
OverlayInit == SnapshotInit

OverlayNext_ ==
  \/ StorePut \/ StoreMerge \/ StoreDelete \/ StoreDeleteRange
  \/ BatchMerge \/ BatchNewIter
  \/ OverlaySeek \/ OverlaySeekToFirst \/ OverlayNext \/ OverlayDestroy

SpecOverlay == OverlayInit /\ [][OverlayNext_]_vars

\* What the overlay of the batch on rows holds at key k.
FoldedOn(rows, k) == FoldLeft([status |-> "", value |-> RowValue(rows, k)], EntriesOf(k))

\* The keys of rows and of the batch.
ViewKeysOn(rows) ==
  {rows[i].key : i \in 1..Len(rows)} \cup {batch.batch[i].key : i \in 1..Len(batch.batch)}

\* Iterator i is at the first key of cands that the overlay of the batch on
\* rows holds, as Lands says it of the store.
LandsOn(rows, i, cands) ==
  LET live == {x \in cands : FoldedOn(rows, x).status # "" \/ FoldedOn(rows, x).value.kind # "null"}
  IN IF live = {} THEN ~Valid(i) /\ i.status = ""
     ELSE LET x == CHOOSE x \in live : \A y \in live : Compare(x, y) <= 0
          IN IF FoldedOn(rows, x).status # "" THEN i.status # ""
             ELSE Valid(i) /\ key(i) = x /\ value(i) = FoldedOn(rows, x).value

\* C13: the iterator DBNewIter makes on an indexed batch reads the store as
\* it is at that call, writes made since the batch was created included:
\* SeekToFirst and Seek on it land on the overlay of the batch on the store
\* of that moment.  A write to the store while the iterator is open changes
\* nothing of what SeekToFirst, Seek and Next on it hand back.  (Iterators
\* without prefix_same_as_start.)
C13_OverlayReadsStoreAsOfNewIter ==
  [][/\ (~it.open /\ it'.open /\ ~it'.prefix_same_as_start) =>
          /\ LandsOn(store, SeekToFirst(it', batch.index), ViewKeysOn(store))
          /\ \A k \in SeekKeys :
               LandsOn(store, Seek(it', batch.index, k),
                       {x \in ViewKeysOn(store) : Compare(x, k) >= 0})
     /\ (it.open /\ store' # store) =>
          /\ it'.open
          /\ SeekToFirst(it', batch'.index) = SeekToFirst(it, batch.index)
          /\ \A k \in SeekKeys : Seek(it', batch'.index, k) = Seek(it, batch.index, k)
          /\ Valid(it') = Valid(it)
          /\ Valid(it) => Next(it', batch'.index) = Next(it, batch.index)]_vars

\* The store was written to before DBNewIter (the iterator reads rows that
\* are none of the stores the run starts with) and after it (the store has
\* lost key A); the iterator stands on key A with the value the store held
\* at DBNewIter, the batch holding no entry.
C13_Witness ==
  /\ it.open /\ ~it.prefix_same_as_start /\ Valid(it)
  /\ it.base \notin BatchStores
  /\ batch.batch = <<>>
  /\ key(it) = EncodeKey(KeyA, 0, 0)
  /\ value(it) = Hello
  /\ RowValue(store, EncodeKey(KeyA, 0, 0)) = NullValue

(***************************************************************************)
(* The key codec and the comparator on their own.  A run starts with the   *)
(* arguments of one call in codec and makes the call: EncodeKey followed   *)
(* by DecodeKey or by KeyPrefix on one key, Compare on the encodings of    *)
(* two keys, DecodeKey on a buffer.                                        *)
(***************************************************************************)
\* Wall times and logical parts run to these values, with some values
\* around the byte boundaries besides.
MaxWall == 2
MaxLogical == 2
\* Buffers handed to DecodeKey have up to this many bytes before the last.
MaxBufLen == 15

CodecUserKeys == {<<>>, <<0>>, <<1>>, <<1, 0>>}
CodecWalls == 0..MaxWall \cup {256}
CodecLogicals == 0..MaxLogical

\* The keys Compare is called on.
CodecKeys ==
  {[key |-> k, wall_time |-> w, logical |-> l] :
     k \in CodecUserKeys, w \in CodecWalls, l \in CodecLogicals}

\* The keys that are encoded and decoded.
RoundTripKeys ==
  {[key |-> k, wall_time |-> w, logical |-> l] :
     k \in CodecUserKeys \cup {<<0, 0>>, <<1, 0, 0>>, <<255>>, <<9, 13>>},
     w \in CodecWalls \cup {255, 65536, kInt32Max},
     l \in CodecLogicals \cup {255, 256, kInt32Max}}

\* The buffers DecodeKey is called on: n equal bytes and a last byte.
CodecBufs ==
  {<<>>} \cup
  {[i \in 1..n |-> fill] \o <<last>> :
     n \in 0..MaxBufLen, fill \in {0, 1, 255}, last \in 0..(MaxBufLen + 1) \cup {127, 128, 255}}

CodecInit ==
  /\ codec \in {[NoCodec EXCEPT !.keys = <<a>>] : a \in RoundTripKeys}
          \cup {[NoCodec EXCEPT !.keys = <<a, b>>] : a, b \in CodecKeys}
          \cup {[NoCodec EXCEPT !.buf = b] : b \in CodecBufs}
  /\ store = <<>>
  /\ batch = NoBatch
  /\ wo = NoWriteOnlyBatch
  /\ it = NoIter
  /\ got = NoGot
  /\ sc = IdleScanner
  /\ seq = 0
  /\ snap = NoSnapshot

\* DecodeKey(EncodeKey(key)), the outputs zeroed before the call as every
\* caller has them.
CodecDecodeKey ==
  /\ codec.op = "" /\ Len(codec.keys) = 1
  /\ codec' = [codec EXCEPT
                 !.op = "DecodeKey",
                 !.buf = EncodeDBKey(codec.keys[1]),
                 !.out = DecodeKey(EncodeDBKey(codec.keys[1]), kZeroTimestamp)]
  /\ UNCHANGED <<store, sc, batch, it, got, seq, wo, snap>>

\* KeyPrefix(EncodeKey(key))
CodecKeyPrefix ==
  /\ codec.op = "" /\ Len(codec.keys) = 1
  /\ codec' = [codec EXCEPT
                 !.op = "KeyPrefix",
                 !.buf = EncodeDBKey(codec.keys[1]),
                 !.out = KeyPrefix(EncodeDBKey(codec.keys[1]))]
  /\ UNCHANGED <<store, sc, batch, it, got, seq, wo, snap>>

\* Compare(EncodeKey(a), EncodeKey(b)) and Compare(EncodeKey(b), EncodeKey(a))
CodecCompare ==
  /\ codec.op = "" /\ Len(codec.keys) = 2
  /\ codec' = [codec EXCEPT
                 !.op = "Compare",
                 !.out = <<Compare(EncodeDBKey(codec.keys[1]), EncodeDBKey(codec.keys[2])),
                           Compare(EncodeDBKey(codec.keys[2]), EncodeDBKey(codec.keys[1]))>>]
  /\ UNCHANGED <<store, sc, batch, it, got, seq, wo, snap>>

\* DecodeKey(buf), the outputs zeroed before the call.
CodecDecodeBuf ==
  /\ codec.op = "" /\ codec.keys = <<>>
  /\ codec' = [codec EXCEPT !.op = "DecodeBuf", !.out = DecodeKey(codec.buf, kZeroTimestamp)]
  /\ UNCHANGED <<store, sc, batch, it, got, seq, wo, snap>>

CodecNext == CodecDecodeKey \/ CodecKeyPrefix \/ CodecCompare \/ CodecDecodeBuf

SpecCodec == CodecInit /\ [][CodecNext]_vars

\* C14: for every user key and every timestamp of non-negative wall time and
\* logical part, DecodeKey on what EncodeKey makes of them succeeds and
\* hands back the user key, the wall time and the logical part.
C14_DecodeEncodeRoundTrip ==
  codec.op = "DecodeKey" =>
    /\ codec.out.ok
    /\ codec.out.key = codec.keys[1].key
    /\ codec.out.ts = <<codec.keys[1].wall_time, codec.keys[1].logical>>

\* A key ending in 0x00 with wall time 0 and a logical part has been
\* encoded and decoded.
C14_Witness ==
  /\ codec.op = "DecodeKey"
  /\ codec.keys[1] = [key |-> <<1, 0>>, wall_time |-> 0, logical |-> 2]
  /\ Len(codec.buf) = 16
  /\ codec.out.ok

\* The two keys of a Compare call, their encodings, and the sign of an int.
KeyOfA == codec.keys[1]
KeyOfB == codec.keys[2]
TsOf(k) == <<k.wall_time, k.logical>>
Sign(n) == IF n < 0 THEN -1 ELSE IF n > 0 THEN 1 ELSE 0

\* C15: Compare is a strict total order on encoded keys: Compare(b, a) is
\* the opposite of Compare(a, b), it is zero only for byte-identical keys,
\* and a before b before c puts a before c.  The key of the smaller user key
\* sorts first whatever the timestamps; within a user key the meta key sorts
\* before every version, and a version of a later timestamp before one of
\* an earlier.
C15_ComparatorTotalOrder ==
  codec.op = "Compare" =>
    /\ Sign(codec.out[2]) = -Sign(codec.out[1])
    /\ codec.out[1] = 0 <=> EncodeDBKey(KeyOfA) = EncodeDBKey(KeyOfB)
    /\ codec.out[1] = 0 <=> KeyOfA = KeyOfB
    /\ \A c \in CodecKeys :
         (codec.out[1] < 0 /\ Compare(EncodeDBKey(KeyOfB), EncodeDBKey(c)) < 0)
           => Compare(EncodeDBKey(KeyOfA), EncodeDBKey(c)) < 0
    /\ SliceCompare(KeyOfA.key, KeyOfB.key) < 0 => codec.out[1] < 0
    /\ (KeyOfA.key = KeyOfB.key /\ TsOf(KeyOfA) = kZeroTimestamp
          /\ TsOf(KeyOfB) # kZeroTimestamp) => codec.out[1] < 0
    /\ (KeyOfA.key = KeyOfB.key /\ TsOf(KeyOfB) # kZeroTimestamp
          /\ TsLess(TsOf(KeyOfB), TsOf(KeyOfA))) => codec.out[1] < 0

\* Two versions of one user key were compared, the first of the same wall
\* time and a larger logical part, and the first sorts first.
C15_Witness ==
  /\ codec.op = "Compare"
  /\ KeyOfA = [key |-> <<1, 0>>, wall_time |-> 2, logical |-> 1]
  /\ KeyOfB = [key |-> <<1, 0>>, wall_time |-> 2, logical |-> 0]
  /\ codec.out = <<-1, 1>>

\* The statement of C16 as it stands: for one user key and any two
\* timestamps, the first key sorts before the second if and only if the
\* first timestamp is the larger.
C16_AnyTwoTimestamps ==
  (codec.op = "Compare" /\ KeyOfA.key = KeyOfB.key) =>
    (codec.out[1] < 0 <=> TsLess(TsOf(KeyOfB), TsOf(KeyOfA)))

\* C16: for one user key and two timestamps of non-negative wall time and
\* logical part, neither of them the zero timestamp, the key of the first
\* sorts before the key of the second if and only if the first timestamp is
\* the larger in the lexicographic order of (wall time, logical).
C16_NonZeroTimestampsDescending ==
  (codec.op = "Compare" /\ KeyOfA.key = KeyOfB.key
     /\ TsOf(KeyOfA) # kZeroTimestamp /\ TsOf(KeyOfB) # kZeroTimestamp) =>
    (codec.out[1] < 0 <=> TsLess(TsOf(KeyOfB), TsOf(KeyOfA)))

\* Two versions of one user key were compared, the first of a smaller wall
\* time and a larger logical part, and the first sorts last.
C16_Witness ==
  /\ codec.op = "Compare"
  /\ KeyOfA = [key |-> <<1>>, wall_time |-> 1, logical |-> 2]
  /\ KeyOfB = [key |-> <<1>>, wall_time |-> 256, logical |-> 0]
  /\ codec.out = <<1, -1>>

\* C17: KeyPrefix on the encoding of a key, whatever its timestamp, is the
\* user key followed by one 0x00 byte, and that is the encoding of the meta
\* key of the user key.
C17_KeyPrefixIsMetaKey ==
  codec.op = "KeyPrefix" =>
    /\ codec.out = codec.keys[1].key \o <<0>>
    /\ codec.out = EncodeKey(codec.keys[1].key, 0, 0)

\* KeyPrefix was taken of a version key whose user key ends in 0x00.
C17_Witness ==
  /\ codec.op = "KeyPrefix"
  /\ codec.keys[1] = [key |-> <<1, 0>>, wall_time |-> 256, logical |-> 1]
  /\ codec.out = <<1, 0, 0>>

\* C18: DecodeKey accepts a buffer exactly when it is not empty, its last
\* byte is smaller than its length, and that byte is 0, 9 or 13: no
\* timestamp bytes, or a guard byte and 8 or 12 bytes.
C18_DecodeKeyAccepts ==
  codec.op = "DecodeBuf" =>
    (codec.out.ok <=>
       /\ codec.buf # <<>>
       /\ codec.buf[Len(codec.buf)] < Len(codec.buf)
       /\ codec.buf[Len(codec.buf)] \in {0, 9, 13})

\* DecodeKey has accepted a buffer of a one-byte user key, a guard byte
\* that is not 0x00, 12 timestamp bytes and the length byte 13.
C18_Witness ==
  /\ codec.op = "DecodeBuf"
  /\ Len(codec.buf) = 15
  /\ codec.buf[2] = 1
  /\ codec.buf[15] = 13
  /\ codec.out.ok
  /\ codec.out.key = <<1>>

(***************************************************************************)
(* The limit of a scan and the reach of a get.                             *)
(***************************************************************************)
\* The iterator of the scanner is on a row of the store.
IterOnRow(s) == s.pos >= 1 /\ s.pos <= Len(store)

\* The iterator of the scanner is where it was when the current row was
\* read: on the row, or one row before it when the scanner has peeked.
IterAtCurrent(s) ==
  \E i \in 1..Len(store) :
    /\ store[i].key = s.cur_raw_key
    /\ s.pos = IF s.peeked THEN i - 1 ELSE i

\* C19: a scan, forward or reverse, holds at most max_keys + 1 rows at any
\* time and hands back at most as many.  The call of getAndAdvance that
\* emits row max_keys + 1 is the last, it leaves the scanner on that row
\* with the iterator where it was when the row was read, and nothing moves
\* the iterator after it.  Only rows count: a call of
\* getAndAdvance that leaves the scan at max_keys rows or fewer, whatever
\* intents it recorded and tombstones it passed, ends the scan only by an
\* error or by the end of the iterator or of the range.
C19_ScanLimit ==
  [][sc.op = "scan" =>
       /\ Len(sc'.kvs) <= sc.max_keys + 1
       /\ Len(sc'.results.data) <= sc.max_keys + 1
       /\ Len(sc'.kvs) <= Len(sc.kvs) + 1
       /\ (ScanStep /\ Len(sc'.kvs) = sc.max_keys + 1) =>
            /\ sc'.pc = "fill"
            /\ sc'.cur_raw_key = sc'.kvs[Len(sc'.kvs)].key
            /\ IterAtCurrent(sc')
       /\ (sc.pc = "fill" \/ Len(sc.kvs) = sc.max_keys + 1) => sc'.pos = sc.pos
       /\ (ScanStep /\ Len(sc'.kvs) <= sc.max_keys /\ sc'.pc = "fill") =>
            \/ sc'.results.status # ""
            \/ sc'.results.uncertainty_timestamp # kZeroTimestamp
            \/ ~IterOnRow(sc')
            \/ ~InRange(sc')]_vars

\* A forward scan with max_keys 1 over three keys has ended with two rows,
\* those of keys B and C, having recorded the intent on key A.
C19_Witness ==
  /\ sc.op = "scan" /\ ~sc.reverse /\ sc.max_keys = 1 /\ sc.pc = "done"
  /\ Len(sc.results.data) = 2
  /\ Len(sc.results.intents) = 1
  /\ DecodeKey(sc.results.data[1].key, kZeroTimestamp).key = KeyB
  /\ DecodeKey(sc.results.data[2].key, kZeroTimestamp).key = KeyC

\* The user key of a row a scanner has emitted or recorded.
UserKeyOf(row) == DecodeKey(row.key, kZeroTimestamp).key

\* The rows in rows that are not of user key k.
NotOfKey(rows, k) == {i \in 1..Len(rows) : UserKeyOf(rows[i]) # k}

\* The store holds nothing for a read of k at T to return: k has no inline
\* value, no intent that the read meets (none, or one of another
\* transaction above T), and no version at or below T but a tombstone.
NoSelectedVersion(k, T) ==
  /\ ~HasInline(k)
  /\ HasIntent(k) => (IntentOf(k).txn_id # sc.txn_id /\ TsLess(T, IntentOf(k).timestamp))
  /\ AtOrBelow(k, T) = <<>>

\* C20: a get holds and hands back at most one row, and every row and every
\* intent it holds or hands back is of the requested user key.  When the
\* store has no row of the requested key, or the version the read selects
\* is a tombstone or there is none, the get ends with no row and no intent.
C20_GetOnlyRequestedKey ==
  sc.op = "get" =>
    /\ Len(sc.kvs) <= 1 /\ Len(sc.results.data) <= 1
    /\ NotOfKey(sc.kvs, sc.start_key) = {}
    /\ NotOfKey(sc.intents, sc.start_key) = {}
    /\ NotOfKey(sc.results.data, sc.start_key) = {}
    /\ NotOfKey(sc.results.intents, sc.start_key) = {}
    /\ (sc.pc = "done" /\ (sc.start_key \notin UserKeys
                             \/ NoSelectedVersion(sc.start_key, sc.timestamp))) =>
         sc.results.data = <<>> /\ sc.results.intents = <<>>

\* The same, the case of no selected version taken away from the zero read
\* timestamp.
C20_AwayFromZeroTimestamp ==
  sc.op = "get" =>
    /\ Len(sc.kvs) <= 1 /\ Len(sc.results.data) <= 1
    /\ NotOfKey(sc.kvs, sc.start_key) = {}
    /\ NotOfKey(sc.intents, sc.start_key) = {}
    /\ NotOfKey(sc.results.data, sc.start_key) = {}
    /\ NotOfKey(sc.results.intents, sc.start_key) = {}
    /\ (sc.pc = "done" /\ (sc.start_key \notin UserKeys
                             \/ (sc.timestamp # kZeroTimestamp
                                   /\ NoSelectedVersion(sc.start_key, sc.timestamp)))) =>
         sc.results.data = <<>> /\ sc.results.intents = <<>>

\* A get of a key the store has no row of has ended empty, the store holding
\* a neighbouring key with a version the read timestamp selects.
C20_Witness ==
  /\ sc.op = "get" /\ sc.pc = "done"
  /\ sc.start_key \notin UserKeys
  /\ KeyB \in UserKeys
  /\ AtOrBelow(KeyB, sc.timestamp) # <<>>
  /\ sc.results.data = <<>> /\ sc.results.intents = <<>>

(***************************************************************************)
(* Reverse scans.  MVCCScan(start, end, ..., reverse = true) constructs    *)
(* the scanner with start_key_ = end and end_key_ = start.                 *)
(***************************************************************************)
ReverseInit ==
  /\ store \in Stores
  /\ \E T \in ReadTimestamps, consistent \in BOOLEAN,
        start \in {KeyA, KeyB}, end \in {KeyB, KeyC, <<4>>} :
       /\ SliceCompare(start, end) < 0
       /\ sc = mvccScanner("scan", end, start, T, MaxKeys, NoTxn, consistent, TRUE)
  /\ batch = NoBatch
  /\ it = NoIter
  /\ got = NoGot
  /\ seq = 0
  /\ wo = NoWriteOnlyBatch
  /\ snap = NoSnapshot
  /\ codec = NoCodec

\* The scan runs on: no call of it is left waiting for ever.
SpecReverse ==
  /\ ReverseInit /\ [][ScanNext]_vars
  /\ ([]<>(sc.pc = "done") \/ []<><<ScanNext>>_vars)

\* The user keys of the rows in rows go strictly down.
StrictlyDescending(rows) ==
  \A i \in 1..(Len(rows) - 1) :
    SliceCompare(UserKeyOf(rows[i]), UserKeyOf(rows[i + 1])) > 0

\* C21: a reverse scan of [start, end) holds only rows whose user key k has
\* start <= k < end, in strictly descending order of the user key, and it
\* comes to its end.
C21_ReverseScanBounds ==
  /\ [](\A i \in 1..Len(sc.kvs) :
          /\ SliceCompare(sc.end_key, UserKeyOf(sc.kvs[i])) <= 0
          /\ SliceCompare(UserKeyOf(sc.kvs[i]), sc.start_key) < 0)
  /\ [](StrictlyDescending(sc.kvs))
  /\ <>(sc.pc = "done")

\* The parts of C21 taken one at a time: the bounds, the order, the end.
C21_WithinBounds ==
  \A i \in 1..Len(sc.kvs) :
    /\ SliceCompare(sc.end_key, UserKeyOf(sc.kvs[i])) <= 0
    /\ SliceCompare(UserKeyOf(sc.kvs[i]), sc.start_key) < 0

C21_Descending == StrictlyDescending(sc.kvs)

C21_Terminates == <>(sc.pc = "done")

(***************************************************************************)
(* Prefix iteration: a batch iterator made with prefix_same_as_start, over *)
(* a batch that holds several versions of a key and keys beyond it.        *)
(***************************************************************************)
\* Next on an iterator that is not Valid: the status is set and Advance is
\* called all the same.  Advance then steps an iterator that is not valid,
\* which rocksdb leaves undefined: bpos and d are where the base and the
\* delta iterator are left.
NextOnInvalid(i, entries, bpos, d) ==
  UpdateCurrent([i EXCEPT !.status = "NotSupported: Next() on invalid iterator",
                          !.bpos = bpos, !.d = d],
                entries, i.prefix_same_as_start)

\* A version of KeyA: a key of the prefix of KeyA above its meta key.
VersionOfKeyA == [key |-> KeyA, wall_time |-> 5, logical |-> 0]

\* The batch of a prefix iteration holds at most this many entries.
MaxPrefixLen == 2

PrefixCanWrite == batch.open /\ ~it.open /\ Len(batch.batch) + 1 <= MaxPrefixLen

PrefixPut ==
  /\ PrefixCanWrite
  /\ \E k \in {VersionOfKeyA, MetaKey(KeyB)} : batch' = DBBatch_Put(batch, k, Hello)
  /\ UNCHANGED <<store, sc, it, got, others>>

PrefixDelete ==
  /\ PrefixCanWrite
  /\ \E k \in {MetaKey(KeyA), VersionOfKeyA} : batch' = DBBatch_Delete(batch, k)
  /\ UNCHANGED <<store, sc, it, got, others>>

PrefixMerge ==
  /\ PrefixCanWrite
  /\ batch' = DBBatch_Merge(batch, MetaKey(KeyA), World)
  /\ UNCHANGED <<store, sc, it, got, others>>

PrefixNewIter ==
  /\ batch.open /\ ~it.open
  /\ it' = DBBatch_NewIter(batch, store, TRUE)
  /\ UNCHANGED <<store, sc, batch, got, others>>

PrefixSeek == OverlaySeek

PrefixNext ==
  /\ it.open
  /\ IF Valid(it) THEN it' = Next(it, batch.index)
     ELSE \E bpos \in 0..(Len(it.base) + 1), d \in 0..Len(batch.index) :
            it' = NextOnInvalid(it, batch.index, bpos, d)
  /\ UNCHANGED <<store, sc, batch, got, others>>

PrefixDestroy == OverlayDestroy

PrefixNext_ ==
  \/ PrefixPut \/ PrefixDelete \/ PrefixMerge \/ PrefixNewIter
  \/ PrefixSeek \/ PrefixNext \/ PrefixDestroy

SpecPrefix == Init /\ [][PrefixNext_]_vars

\* The keys of cands that have the prefix p.
OfPrefix(cands, p) == {x \in cands : KeyPrefix(x) = p}

MergeFromBase(basev, operand) ==
  IF basev.kind = "null" THEN [status |-> "", value |-> operand]
  ELSE DBMergeOne(basev, operand)

\* The left fold of entries es into acc in which every Merge that finds the
\* accumulator empty starts from the base value basev.
RECURSIVE FoldFetching(_, _, _)
FoldFetching(acc, es, basev) ==
  IF es = <<>> \/ acc.status # "" THEN acc
  ELSE LET e == Head(es)
       IN FoldFetching(CASE e.type = "Put" -> [status |-> "", value |-> e.value]
                         [] e.type = "Delete" -> [status |-> "", value |-> NullValue]
                         [] e.type = "Merge" ->
                              IF acc.value.kind = "null" THEN MergeFromBase(basev, e.value)
                              ELSE DBMergeOne(acc.value, e.value)
                         [] OTHER -> acc,
                       Tail(es), basev)

\* got is what a fold that ended as r hands back.
GotIs(g, r) == IF r.status = "" THEN g = r ELSE g.status # ""

\* The statement of C23 as given: every Merge consumed at an empty
\* accumulator starts from the base value of the key, a Merge that follows
\* a Delete of the key included.
C23_EveryEmptyMergeFetchesBase ==
  [][(~HasDeleteRange /\ ~it.open /\ batch.updates # 0 /\ UNCHANGED <<batch, it>>) =>
       \A k \in BatchKeys :
         (EntriesOf(EncodeDBKey(k)) # <<>> /\ got' = DBBatch_Get(batch, store, k)) =>
           GotIs(got', FoldFetching([status |-> "", value |-> NullValue],
                                    EntriesOf(EncodeDBKey(k)),
                                    StoreValue(EncodeDBKey(k))))]_vars

\* C23: a Merge that is the first entry of its key in the batch starts from
\* the base value of the key, when the base has one; a Merge that follows
\* a Delete of the key in the batch starts from nothing and gives its
\* operand, the base value being left out (a merge that failed earlier in
\* the key's entries fails the read).
C23_FirstMergeFetchesBase ==
  [][(~HasDeleteRange /\ ~it.open /\ batch.updates # 0 /\ UNCHANGED <<batch, it>>) =>
       \A k \in BatchKeys :
         got' = DBBatch_Get(batch, store, k) =>
           LET es == EntriesOf(EncodeDBKey(k))
               n == Len(es)
           IN /\ (n >= 1 /\ es[1].type = "Merge") =>
                   GotIs(got', FoldLeft(MergeFromBase(StoreValue(EncodeDBKey(k)), es[1].value),
                                        Tail(es)))
              /\ (n >= 2 /\ es[n - 1].type = "Delete" /\ es[n].type = "Merge") =>
                   IF Folded(EncodeDBKey(k)).status = ""
                   THEN got' = [status |-> "", value |-> es[n].value]
                   ELSE got'.status # ""]_vars

\* Get has read KeyA, which the store holds, through a batch that deletes
\* it and then merges into it: the operand alone comes back.
C23_Witness ==
  /\ StoreValue(EncodeKey(KeyA, 0, 0)) = Hello
  /\ batch.open
  /\ Len(EntriesOf(EncodeKey(KeyA, 0, 0))) >= 2
  /\ EntriesOf(EncodeKey(KeyA, 0, 0))[1].type = "Delete"
  /\ EntriesOf(EncodeKey(KeyA, 0, 0))[2].type = "Merge"
  /\ Len(EntriesOf(EncodeKey(KeyA, 0, 0))) = 2
  /\ got = [status |-> "", value |-> World]

RECURSIVE PartialMergeLoop(_, _)
PartialMergeLoop(m, operand_list) ==
  IF ~m.ok \/ operand_list = <<>> THEN m
  ELSE PartialMergeLoop(MergeOne(m.meta, Head(operand_list), FALSE), Tail(operand_list))

\* A PartialMergeMulti that stops after its first operand.
PartialMergeFirstOnly(operand_list) ==
  FullMergeAt(PartialMergeLoop([ok |-> TRUE, meta |-> NoMeta], <<Head(operand_list)>>))

\* DBMergeOperator::PartialMergeMulti: [ok, value]
PartialMergeMulti(operand_list) ==
  FullMergeAt(PartialMergeLoop([ok |-> TRUE, meta |-> NoMeta], operand_list))

\* An MVCCMetadata that holds raw_bytes b, serialized.
MetaOf(b) == SerializeMeta([NoMeta EXCEPT !.has_raw = TRUE, !.raw_bytes = b])

Sample(offset, v) == [offset |-> offset, value |-> v]

\* A time series value of the start, the duration and the samples given.
TimeSeriesValue(start, duration, samples) ==
  MetaOf(SerializeTimeSeriesToValue([start_timestamp_nanos |-> start,
                                     sample_duration_nanos |-> duration,
                                     samples |-> samples]))

\* The sample lists of the operands: sorted, unsorted, with offsets twice.
\* Each sample has a value of its own, so the operand it came from shows.
SampleLists ==
  { <<>>,
    <<Sample(1, 11)>>,
    <<Sample(2, 21), Sample(3, 22)>>,
    <<Sample(3, 31), Sample(1, 32)>>,
    <<Sample(2, 41), Sample(2, 42)>>,
    <<Sample(3, 51), Sample(1, 52), Sample(3, 53)>> }

\* Time series that go together: one start, one sample duration.
SeriesOperands == {TimeSeriesValue(1, 1, s) : s \in SampleLists}

\* raw_bytes of plain byte values, some shorter than the header.
BytesRaw ==
  { <<>>, <<1>>, <<1, 2, 3, 4>>,
    <<0, 0, 0, 0, BYTES>>,
    <<0, 0, 0, 0, BYTES, 7>>,
    <<0, 0, 0, 0, BYTES, TIMESERIES, 7>> }

BytesOperands == {MetaOf(b) : b \in BytesRaw}

\* Operands that do not go with the others: another start, another
\* duration, a payload that is no InternalTimeSeriesData, bytes that are no
\* MVCCMetadata, and a message without raw_bytes.
OddOperands ==
  { TimeSeriesValue(2, 1, <<Sample(1, 61)>>),
    TimeSeriesValue(1, 2, <<Sample(1, 71)>>),
    MetaOf(<<0, 0, 0, 0, TIMESERIES, 1>>),
    Corrupt,
    RawValue(<<>>) }

\* The operand lists have up to this many operands.
MaxOperands == 3

OperandLists(S) ==
  UNION {[1..n -> S] : n \in 1..MaxOperands}

MergeInit ==
  /\ codec \in {[NoCodec EXCEPT !.keys = ops] : ops \in [1..3 -> BytesOperands]}
          \cup {[NoCodec EXCEPT !.keys = ops, !.buf = e] :
                  ops \in OperandLists(SeriesOperands),
                  e \in {<<>>} \cup {<<v>> : v \in SeriesOperands}}
          \cup {[NoCodec EXCEPT !.keys = <<o>>, !.buf = e] :
                  o \in SeriesOperands \cup BytesOperands \cup OddOperands,
                  e \in {<<>>} \cup {<<v>> : v \in SeriesOperands \cup BytesOperands
                                                   \cup OddOperands}}
  /\ store = <<>>
  /\ batch = NoBatch
  /\ wo = NoWriteOnlyBatch
  /\ it = NoIter
  /\ got = NoGot
  /\ sc = IdleScanner
  /\ seq = 0
  /\ snap = NoSnapshot

\* The existing value of the call: NULL when there is none.
ExistingOf(c) == IF c.buf = <<>> THEN NullValue ELSE c.buf[1]

\* Every operand of the call is a plain byte value.
BytesCall(c) == Len(c.keys) = 3 /\ \A i \in 1..3 : c.keys[i] \in BytesOperands

\* MergeValues(&a, b) and then MergeValues(&a, c): [ok, meta]
MergeLeftFirst(a, b, c, full_merge) ==
  LET ab == MergeValues(a, b, full_merge)
  IN IF ~ab.ok THEN ab ELSE MergeValues(ab.meta, c, full_merge)

\* MergeValues(&b, c) and then MergeValues(&a, b): [ok, meta]
MergeRightFirst(a, b, c, full_merge) ==
  LET bc == MergeValues(b, c, full_merge)
  IN IF ~bc.ok THEN [ok |-> FALSE, meta |-> a] ELSE MergeValues(a, bc.meta, full_merge)

MetaAt(c, i) == ParseFromArray(c.keys[i]).meta

MergeGroupLeft ==
  /\ codec.op = "" /\ BytesCall(codec)
  /\ \E full_merge \in BOOLEAN :
       codec' = [codec EXCEPT
                   !.op = "MergeLeftFirst",
                   !.out = MergeLeftFirst(MetaAt(codec, 1), MetaAt(codec, 2),
                                          MetaAt(codec, 3), full_merge)]
  /\ UNCHANGED <<store, sc, batch, it, got, seq, wo, snap>>

MergeGroupRight ==
  /\ codec.op = "" /\ BytesCall(codec)
  /\ \E full_merge \in BOOLEAN :
       codec' = [codec EXCEPT
                   !.op = "MergeRightFirst",
                   !.out = MergeRightFirst(MetaAt(codec, 1), MetaAt(codec, 2),
                                           MetaAt(codec, 3), full_merge)]
  /\ UNCHANGED <<store, sc, batch, it, got, seq, wo, snap>>

\* FullMerge(existing_value, operand_list)
MergeFull ==
  /\ codec.op = "" /\ ~BytesCall(codec)
  /\ codec' = [codec EXCEPT !.op = "FullMerge",
                            !.out = FullMerge(ExistingOf(codec), codec.keys)]
  /\ UNCHANGED <<store, sc, batch, it, got, seq, wo, snap>>

\* FullMerge on what PartialMergeMulti made of the operands before and of
\* the operands after a split point.
FullMergeOfParts(existing_value, p, q) ==
  IF ~p.ok \/ ~q.ok THEN [ok |-> FALSE, value |-> NullValue]
  ELSE FullMerge(existing_value, <<p.value, q.value>>)

MergePartialThenFull ==
  /\ codec.op = "" /\ ~BytesCall(codec) /\ Len(codec.keys) >= 2
  /\ \E split \in 1..(Len(codec.keys) - 1) :
       codec' = [codec EXCEPT
                   !.op = "PartialThenFull",
                   !.out = FullMergeOfParts(
                             ExistingOf(codec),
                             PartialMergeMulti(SubSeq(codec.keys, 1, split)),
                             PartialMergeMulti(SubSeq(codec.keys, split + 1,
                                                      Len(codec.keys))))]
  /\ UNCHANGED <<store, sc, batch, it, got, seq, wo, snap>>

\* DBMergeOne(existing, update)
MergeOneCall ==
  /\ codec.op = "" /\ Len(codec.keys) = 1 /\ codec.buf # <<>>
  /\ codec' = [codec EXCEPT !.op = "DBMergeOne",
                            !.out = DBMergeOne(codec.buf[1], codec.keys[1])]
  /\ UNCHANGED <<store, sc, batch, it, got, seq, wo, snap>>

MergeNext ==
  \/ MergeGroupLeft \/ MergeGroupRight \/ MergeFull \/ MergePartialThenFull
  \/ MergeOneCall

SpecMerge == MergeInit /\ [][MergeNext]_vars

\* C25: merging plain byte values a, b, c in either grouping succeeds and
\* leaves the same raw_bytes, whatever the length of their raw_bytes.
C25_BytesMergeAssociative ==
  (codec.op \in {"MergeLeftFirst", "MergeRightFirst"}) =>
    \A full_merge \in BOOLEAN :
      LET l == MergeLeftFirst(MetaAt(codec, 1), MetaAt(codec, 2), MetaAt(codec, 3), full_merge)
          r == MergeRightFirst(MetaAt(codec, 1), MetaAt(codec, 2), MetaAt(codec, 3), full_merge)
      IN /\ codec.out \in {l, r}
         /\ l.ok /\ r.ok
         /\ l.meta.raw_bytes = r.meta.raw_bytes

\* The same for values of which the first two have the whole header.
C25_WithWholeHeader ==
  (/\ codec.op \in {"MergeLeftFirst", "MergeRightFirst"}
   /\ Len(MetaAt(codec, 1).raw_bytes) >= kHeaderSize
   /\ Len(MetaAt(codec, 2).raw_bytes) >= kHeaderSize) =>
    \A full_merge \in BOOLEAN :
      LET l == MergeLeftFirst(MetaAt(codec, 1), MetaAt(codec, 2), MetaAt(codec, 3), full_merge)
          r == MergeRightFirst(MetaAt(codec, 1), MetaAt(codec, 2), MetaAt(codec, 3), full_merge)
      IN /\ codec.out \in {l, r}
         /\ l.ok /\ r.ok
         /\ l.meta.raw_bytes = r.meta.raw_bytes

\* The samples of the time series in value v.
SamplesOf(v) == ParseProtoFromValue(ParseFromArray(v).meta.raw_bytes).ts.samples

\* The operands of the call are time series of one start and one sample
\* duration, and so is the existing value when there is one.
SeriesCall(c) ==
  /\ \A i \in 1..Len(c.keys) : c.keys[i] \in SeriesOperands
  /\ c.buf # <<>> => c.buf[1] \in SeriesOperands

\* C26: for time series operands of one start and one sample duration, with
\* or without an existing value, FullMerge over what PartialMergeMulti makes
\* of the operands before and after any split point succeeds and gives the
\* sample list that FullMerge over the operands themselves gives.
C26_PartialThenFullIsFull ==
  (codec.op = "PartialThenFull" /\ SeriesCall(codec)) =>
     /\ codec.out.ok
     /\ FullMerge(ExistingOf(codec), codec.keys).ok
     /\ SamplesOf(codec.out.value) = SamplesOf(FullMerge(ExistingOf(codec), codec.keys).value)

\* Three operands, unsorted and with an offset twice, have been merged in
\* parts over an existing value.
C26_Witness ==
  /\ codec.op = "PartialThenFull" /\ SeriesCall(codec)
  /\ Len(codec.keys) = 3
  /\ codec.keys[1] = TimeSeriesValue(1, 1, <<Sample(3, 31), Sample(1, 32)>>)
  /\ codec.keys[2] = TimeSeriesValue(1, 1, <<Sample(2, 41), Sample(2, 42)>>)
  /\ codec.buf = <<TimeSeriesValue(1, 1, <<Sample(2, 21), Sample(3, 22)>>)>>
  /\ codec.out.ok
  /\ Len(SamplesOf(codec.out.value)) = 3

\* The samples of the call in merge order: those of the existing value and
\* then those of each operand.
RECURSIVE SamplesInOrder(_)
SamplesInOrder(vs) ==
  IF vs = <<>> THEN <<>> ELSE SamplesOf(Head(vs)) \o SamplesInOrder(Tail(vs))

InputSamples(c) == SamplesInOrder(c.buf \o c.keys)

\* s is strictly ascending by offset, holds one sample for each offset of
\* the samples all, and for each offset the last of all that has it.
LastOfEachOffset(s, all) ==
  /\ \A i \in 1..(Len(s) - 1) : s[i].offset < s[i + 1].offset
  /\ {s[i].offset : i \in 1..Len(s)} = {all[j].offset : j \in 1..Len(all)}
  /\ \A i \in 1..Len(s) :
       \E j \in 1..Len(all) :
         /\ all[j] = s[i]
         /\ \A k \in (j + 1)..Len(all) : all[k].offset # s[i].offset

Ascending(s) == \A i \in 1..(Len(s) - 1) : s[i].offset <= s[i + 1].offset

\* C27: the sample list of a full merge of time series is strictly
\* ascending by offset, with one sample for each offset of the inputs, the
\* one that comes last in merge order, whether the left operand (the
\* existing value) is sorted or not.
C27_FullMergeSortedLastWins ==
  (codec.op = "FullMerge" /\ SeriesCall(codec)) =>
     /\ codec.out.ok
     /\ LastOfEachOffset(SamplesOf(codec.out.value), InputSamples(codec))

\* The same where there is no existing value or its samples are in
\* ascending order of offset.
C27_SortedExistingValue ==
  (/\ codec.op = "FullMerge" /\ SeriesCall(codec)
   /\ codec.buf # <<>> => Ascending(SamplesOf(codec.buf[1]))) =>
     /\ codec.out.ok
     /\ LastOfEachOffset(SamplesOf(codec.out.value), InputSamples(codec))

\* The accumulator the merge of the call starts from: the existing value
\* parsed, or the empty message when there is none.
AccumulatorOf(c) ==
  IF c.buf = <<>> THEN [ok |-> TRUE, meta |-> NoMeta] ELSE ParseFromArray(c.buf[1])

\* The time series in the raw_bytes of meta m: [ok, ts]
SeriesIn(m) == ParseProtoFromValue(m.raw_bytes)

\* Operand u does not go with accumulator a: u does not parse; a has
\* raw_bytes and u has none; one of the two is a time series and the other
\* is not; or both are and differ in start or in sample duration.
Mismatched(a, u) ==
  \/ ~u.ok
  \/ /\ a.ok /\ a.meta.has_raw
     /\ \/ ~u.meta.has_raw
        \/ IsTimeSeriesData(a.meta.raw_bytes) # IsTimeSeriesData(u.meta.raw_bytes)
        \/ /\ IsTimeSeriesData(a.meta.raw_bytes) /\ IsTimeSeriesData(u.meta.raw_bytes)
           /\ SeriesIn(a.meta).ok /\ SeriesIn(u.meta).ok
           /\ \/ SeriesIn(a.meta).ts.start_timestamp_nanos
                   # SeriesIn(u.meta).ts.start_timestamp_nanos
              \/ SeriesIn(a.meta).ts.sample_duration_nanos
                   # SeriesIn(u.meta).ts.sample_duration_nanos

\* C28: a merge of an operand that does not parse, of an operand without
\* raw_bytes into an accumulator that has them, of a time series with a
\* value that is none, or of two time series that differ in start or in
\* sample duration reports failure and hands back no value; a merge that
\* hands back a value had none of these.
C28_MismatchedMergeFails ==
  /\ (codec.op = "DBMergeOne" /\ Mismatched(AccumulatorOf(codec), ParseFromArray(codec.keys[1])))
       => (codec.out.status # "" /\ codec.out.value = NullValue)
  /\ (codec.op = "DBMergeOne" /\ codec.out.status # "") => codec.out.value = NullValue
  /\ (/\ codec.op = "FullMerge" /\ Len(codec.keys) = 1
      /\ Mismatched(AccumulatorOf(codec), ParseFromArray(codec.keys[1])))
       => (~codec.out.ok /\ codec.out.value = NullValue)
  /\ (codec.op = "FullMerge" /\ ~codec.out.ok) => codec.out.value = NullValue

\* A time series of start 2 has been merged into one of start 1, and the
\* merge has failed.
C28_Witness ==
  /\ codec.op = "DBMergeOne"
  /\ codec.buf = <<TimeSeriesValue(1, 1, <<Sample(1, 11)>>)>>
  /\ codec.keys = <<TimeSeriesValue(2, 1, <<Sample(1, 61)>>)>>
  /\ codec.out.status # ""
  /\ codec.out.value = NullValue


\* ---------------------------------------------------------------------------
\* Split keys: IsValidSplitKey and MVCCFindSplitKey.
\* ---------------------------------------------------------------------------

\* keys.h is not among the sources: kMeta2KeyMax and the two lists of spans
\* are written here after the range-addressing keys they name (the end of
\* the meta2 addressing records; the system-config span and the meta1 span,
\* or the whole meta span when meta2 may not be split), each list sorted by
\* end key, descending, as the loop of IsValidSplitKey requires.
kMeta2KeyMax == <<3, 255, 255>>

kSortedNoSplitSpans ==
  <<[first |-> <<136>>, second |-> <<137>>], [first |-> <<2>>, second |-> <<3>>]>>

kSortedNoSplitSpansWithoutMeta2Splits ==
  <<[first |-> <<136>>, second |-> <<137>>], [first |-> <<2>>, second |-> <<4>>]>>

RECURSIVE InSpans(_, _, _)
\* The loop of IsValidSplitKey over the spans, from span i on.
InSpans(k, spans, i) ==
  IF i > Len(spans) THEN TRUE
  ELSE IF SliceCompare(k, spans[i].second) >= 0 THEN TRUE
  ELSE IF SliceCompare(k, spans[i].first) > 0 THEN FALSE
  ELSE InSpans(k, spans, i + 1)

IsValidSplitKey(k, allow_meta2_splits) ==
  IF k = kMeta2KeyMax THEN FALSE
  ELSE InSpans(k, IF allow_meta2_splits THEN kSortedNoSplitSpans
                    ELSE kSortedNoSplitSpansWithoutMeta2Splits, 1)

\* std::numeric_limits<int64_t>::max(), the first best_split_diff: above
\* every size of the model.
kNoSplitDiff == 2147483647

AbsDiff(a, b) == IF a >= b THEN a - b ELSE b - a

\* value().size() of a row.
ValueSize(row) == Len(row.value.bytes)

RECURSIVE FindSplitLoop(_, _, _, _, _, _, _)
\* The for loop of MVCCFindSplitKey from row p on; st holds its locals.
FindSplitLoop(rows, p, end_key, min_split_key, target_size, allow_meta2_splits, st) ==
  IF p > Len(rows) \/ Compare(rows[p].key, end_key) >= 0 THEN [st EXCEPT !.status = ""]
  ELSE
    LET d == DecodeKey(rows[p].key, kZeroTimestamp)
    IN IF ~d.ok THEN [st EXCEPT !.status = "unable to decode key"]
       ELSE
         LET n == st.n + 1
             valid == /\ n > 1
                      /\ IsValidSplitKey(d.key, allow_meta2_splits)
                      /\ SliceCompare(d.key, min_split_key) >= 0
             diff == AbsDiff(target_size, st.size_so_far)
             take == valid /\ diff < st.best_split_diff
             best_split_key == IF take THEN d.key ELSE st.best_split_key
             best_split_diff == IF take THEN diff ELSE st.best_split_diff
             is_value == d.ts[1] # 0 \/ d.ts[2] # 0
             size_so_far ==
               IF is_value /\ d.key = st.prev_key
               THEN st.size_so_far + kMVCCVersionTimestampSize + ValueSize(rows[p])
               ELSE st.size_so_far + Len(d.key) + 1 + ValueSize(rows[p])
                      + (IF is_value THEN kMVCCVersionTimestampSize ELSE 0)
         IN IF diff > best_split_diff /\ best_split_key # <<>>
            THEN [st EXCEPT !.n = n, !.best_split_key = best_split_key,
                            !.best_split_diff = best_split_diff, !.status = ""]
            ELSE FindSplitLoop(rows, p + 1, end_key, min_split_key, target_size,
                               allow_meta2_splits,
                               [st EXCEPT !.n = n, !.best_split_key = best_split_key,
                                          !.best_split_diff = best_split_diff,
                                          !.size_so_far = size_so_far,
                                          !.prev_key = d.key])

\* MVCCFindSplitKey: the DBStatus and the split_key it hands back (NullValue
\* when *split_key is left untouched).
MVCCFindSplitKey(rows, start, end, min_split, target_size, allow_meta2_splits) ==
  LET start_key == EncodeKey(start.key, start.wall_time, start.logical)
      end_key == EncodeKey(end.key, end.wall_time, end.logical)
      st == FindSplitLoop(rows, SeekPosIn(rows, start_key), end_key, min_split.key,
                          target_size, allow_meta2_splits,
                          [size_so_far |-> 0, best_split_key |-> start_key,
                           best_split_diff |-> kNoSplitDiff, prev_key |-> <<>>,
                           n |-> 0, status |-> ""])
  IN IF st.status # "" THEN [status |-> st.status, value |-> NullValue]
     ELSE IF st.best_split_key = start_key THEN [status |-> "", value |-> NullValue]
     ELSE [status |-> "", value |-> RawValue(st.best_split_key)]

\* The user keys of the split-key stores: the first key, the key that is the
\* first key followed by a zero byte, a meta2 key, kMeta2KeyMax, two keys
\* above the meta span.
SplitKeyA == <<1>>
SplitKeyA0 == <<1, 0>>
SplitKeyM == <<3>>
SplitKeyP == <<5>>
SplitKeyQ == <<6>>

\* A row of len bytes of value at user key k: a version at wall time
\* wall, or the row of the bare key when wall is 0.
SplitRow(k, wall, len) ==
  [key |-> EncodeKey(k, wall, 0), value |-> RawValue([i \in 1..len |-> 7])]

MaxSplitVersions == 3

\* The rows of one user key: none, one version, the bare key and a version,
\* or MaxSplitVersions versions, newest first.
SplitShapes(k) ==
  { <<>>,
    <<SplitRow(k, 2, 3)>>,
    <<SplitRow(k, 0, 2), SplitRow(k, 2, 3)>>,
    [i \in 1..MaxSplitVersions |-> SplitRow(k, MaxSplitVersions + 1 - i, i)] }

SplitStores ==
  { a \o a0 \o m \o x \o p \o <<SplitRow(SplitKeyQ, 1, 4)>> :
      a \in SplitShapes(SplitKeyA) \ {<<>>},
      a0 \in {<<>>, <<SplitRow(SplitKeyA0, 1, 1)>>},
      m \in {<<>>, <<SplitRow(SplitKeyM, 1, 2)>>},
      x \in {<<>>, <<SplitRow(kMeta2KeyMax, 1, 2)>>},
      p \in SplitShapes(SplitKeyP) }

\* The target sizes of the calls.
SplitTargets == {0, 17, 30, 50, 100}

\* One call of MVCCFindSplitKey on a store: codec.keys holds start, end and
\* min_split, codec.buf the target_size and allow_meta2_splits (1 or 0).
SplitInit ==
  /\ store \in SplitStores
  /\ codec \in {[NoCodec EXCEPT !.keys = <<MetaKey(s), MetaKey(e), MetaKey(m)>>,
                                !.buf = <<t, a>>] :
                  s \in {<<0>>, SplitKeyA}, e \in {SplitKeyQ, <<7>>},
                  m \in {<<>>, SplitKeyA, SplitKeyM, SplitKeyP},
                  t \in SplitTargets, a \in {0, 1}}
  /\ batch = NoBatch
  /\ wo = NoWriteOnlyBatch
  /\ it = NoIter
  /\ got = NoGot
  /\ sc = IdleScanner
  /\ seq = 0
  /\ snap = NoSnapshot

FindSplitKey ==
  /\ codec.op = ""
  /\ codec' = [codec EXCEPT !.op = "MVCCFindSplitKey",
                            !.out = MVCCFindSplitKey(store, codec.keys[1], codec.keys[2],
                                                     codec.keys[3], codec.buf[1],
                                                     codec.buf[2] = 1)]
  /\ UNCHANGED <<store, sc, batch, it, got, seq, wo, snap>>

SpecSplit == SplitInit /\ [][FindSplitKey]_vars

\* The rows of [start, end), in the order of the store.
SplitRange ==
  {i \in 1..Len(store) :
     /\ Compare(store[i].key, EncodeKey(codec.keys[1].key, 0, 0)) >= 0
     /\ Compare(store[i].key, EncodeKey(codec.keys[2].key, 0, 0)) < 0}

FirstOfRange == CHOOSE i \in SplitRange : \A j \in SplitRange : i <= j

IsVersionRow(i) == DecodeKey(store[i].key, kZeroTimestamp).ts # kZeroTimestamp

\* What row i adds to the size: a user key len + 1, a version 12, and the
\* value bytes.
RowBytes(i) ==
  IF IsVersionRow(i) /\ i - 1 \in SplitRange /\ UserKeyOf(store[i - 1]) = UserKeyOf(store[i])
  THEN kMVCCVersionTimestampSize + ValueSize(store[i])
  ELSE Len(UserKeyOf(store[i])) + 1 + ValueSize(store[i])
         + (IF IsVersionRow(i) THEN kMVCCVersionTimestampSize ELSE 0)

RECURSIVE SizeBefore(_)
\* The size of the rows of the range before row i.
SizeBefore(i) ==
  IF i - 1 \in SplitRange THEN SizeBefore(i - 1) + RowBytes(i - 1) ELSE 0

SplitDiff(i) == AbsDiff(codec.buf[1], SizeBefore(i))

\* The rows whose key passes IsValidSplitKey and is >= min_split.
Qualifying ==
  {i \in SplitRange :
     /\ IsValidSplitKey(UserKeyOf(store[i]), codec.buf[2] = 1)
     /\ SliceCompare(UserKeyOf(store[i]), codec.keys[3].key) >= 0}

\* The row of rs nearest to the target size, the earliest of them on ties.
Nearest(rs) ==
  CHOOSE i \in rs : \A j \in rs : SplitDiff(i) < SplitDiff(j)
                                  \/ (SplitDiff(i) = SplitDiff(j) /\ i <= j)

\* The call returned the key of the nearest row of rs, or nothing when rs is empty.
ReturnsNearest(rs) ==
  /\ codec.out.status = ""
  /\ IF rs = {} THEN codec.out.value = NullValue
     ELSE codec.out.value = RawValue(UserKeyOf(store[Nearest(rs)]))

SplitDone == codec.op = "MVCCFindSplitKey"

\* C29: MVCCFindSplitKey never returns the first user key of the scanned
\* range as the split key, however many versions that user key has.
C29_NeverFirstUserKey ==
  (SplitDone /\ SplitRange # {} /\ codec.out.value # NullValue)
    => codec.out.value.bytes # UserKeyOf(store[FirstOfRange])

\* The same for a first user key that has one row only: this holds.
C29_NeverFirstRow ==
  (/\ SplitDone /\ SplitRange # {} /\ codec.out.value # NullValue
   /\ \A i \in SplitRange \ {FirstOfRange} :
        UserKeyOf(store[i]) # UserKeyOf(store[FirstOfRange]))
    => codec.out.value.bytes # UserKeyOf(store[FirstOfRange])

\* C30: the key MVCCFindSplitKey returns passes IsValidSplitKey, is >=
\* min_split and is the key of the row nearest to target_size among the rows
\* of [start, end) that do (the earliest on ties); when no row qualifies it
\* returns no key.
C30_ReturnsNearestQualifying ==
  SplitDone => ReturnsNearest(Qualifying)

\* The same with the first row of the range left out of the candidates, as
\* n > 1 does.
C30_NearestAfterFirstRow ==
  SplitDone => ReturnsNearest(Qualifying \ {FirstOfRange})

\* The same again for the calls whose nearest key differs from the encoded
\* start key: this holds.
C30_NearestUnlessStartKey ==
  (/\ SplitDone
   /\ \A i \in Qualifying \ {FirstOfRange} :
        UserKeyOf(store[i]) # EncodeKey(codec.keys[1].key, 0, 0))
    => ReturnsNearest(Qualifying \ {FirstOfRange})

\* The stores are sorted by DBComparator.
SplitStoresSorted ==
  \A i \in 1..(Len(store) - 1) : Compare(store[i].key, store[i + 1].key) < 0

\* ---------------------------------------------------------------------------
\* Time-bound iteration: TimeBoundTblPropCollector and the table filter of
\* DBNewTimeBoundIter.
\* ---------------------------------------------------------------------------

\* A collector as constructed: ts_min_ and ts_max_ empty.
NewCollector == [ts_min_ |-> <<>>, ts_max_ |-> <<>>]

\* An AddUserKey that sets ts_min_ only while it is empty.
AddUserKeyFirstMin(c, user_key) ==
  LET sp == SplitKey(user_key)
  IN IF sp.ok /\ sp.ts # <<>>
     THEN LET ts == Tail(sp.ts)
          IN [ts_max_ |-> IF c.ts_max_ = <<>> \/ SliceCompare(ts, c.ts_max_) > 0
                          THEN ts ELSE c.ts_max_,
              ts_min_ |-> IF c.ts_min_ = <<>> THEN ts ELSE c.ts_min_]
     ELSE c

\* TimeBoundTblPropCollector::AddUserKey.
AddUserKey(c, user_key) ==
  LET sp == SplitKey(user_key)
  IN IF sp.ok /\ sp.ts # <<>>
     THEN LET ts == Tail(sp.ts)
          IN [ts_max_ |-> IF c.ts_max_ = <<>> \/ SliceCompare(ts, c.ts_max_) > 0
                          THEN ts ELSE c.ts_max_,
              ts_min_ |-> IF c.ts_min_ = <<>> \/ SliceCompare(ts, c.ts_min_) < 0
                          THEN ts ELSE c.ts_min_]
     ELSE c

\* TimeBoundTblPropCollector::Finish: the user-collected properties of the file.
Finish(c) == [has_min |-> TRUE, min |-> c.ts_min_, has_max |-> TRUE, max |-> c.ts_max_]

\* The properties of a file written without the collector.
NoProperties == [has_min |-> FALSE, min |-> <<>>, has_max |-> FALSE, max |-> <<>>]

\* opts.table_filter of DBNewTimeBoundIter: TRUE when the file is read.
table_filter(min_ts, max_ts, props) ==
  LET min == EncodeTimestamp(min_ts[1], min_ts[2])
      max == EncodeTimestamp(max_ts[1], max_ts[2])
  IN IF ~props.has_min \/ props.min = <<>> THEN TRUE
     ELSE IF ~props.has_max \/ props.max = <<>> THEN TRUE
     ELSE SliceCompare(max, props.min) >= 0 /\ SliceCompare(min, props.max) <= 0

\* The timestamps of the files and of the queries: wall times on both sides
\* of a byte boundary, with and without a logical part.
BoundTimestamps == {<<1, 0>>, <<1, 1>>, <<255, 0>>, <<256, 0>>, <<256, 256>>, <<300, 1>>}

\* The keys added to a file: versions of KeyA, and its metadata key.
FileKeys == {EncodeKey(KeyA, t[1], t[2]) : t \in BoundTimestamps \cup {kZeroTimestamp}}

MaxFileKeys == 3

\* One SST being written and then filtered: codec.keys holds the keys added,
\* codec.buf the collector, codec.out the properties of the finished file and
\* then the query and what the filter answered.
TimeBoundInit ==
  /\ codec = [NoCodec EXCEPT !.buf = NewCollector, !.out = NoProperties]
  /\ store = <<>>
  /\ batch = NoBatch
  /\ wo = NoWriteOnlyBatch
  /\ it = NoIter
  /\ got = NoGot
  /\ sc = IdleScanner
  /\ seq = 0
  /\ snap = NoSnapshot

FileAddUserKey ==
  /\ codec.op = "" /\ Len(codec.keys) < MaxFileKeys
  /\ \E k \in FileKeys :
       codec' = [codec EXCEPT !.keys = Append(codec.keys, k),
                              !.buf = AddUserKey(codec.buf, k)]
  /\ UNCHANGED <<store, sc, batch, it, got, seq, wo, snap>>

FileFinish ==
  /\ codec.op = ""
  /\ codec' = [codec EXCEPT !.op = "Finish", !.out = Finish(codec.buf)]
  /\ UNCHANGED <<store, sc, batch, it, got, seq, wo, snap>>

\* A file written by a build that has no collector.
FileFinishOld ==
  /\ codec.op = ""
  /\ codec' = [codec EXCEPT !.op = "Finish", !.out = NoProperties]
  /\ UNCHANGED <<store, sc, batch, it, got, seq, wo, snap>>

FileFilter ==
  /\ codec.op = "Finish"
  /\ \E min_ts \in BoundTimestamps, max_ts \in BoundTimestamps :
       codec' = [codec EXCEPT !.op = "DBNewTimeBoundIter",
                              !.out = [props |-> codec.out, min_ts |-> min_ts,
                                       max_ts |-> max_ts,
                                       read |-> table_filter(min_ts, max_ts, codec.out)]]
  /\ UNCHANGED <<store, sc, batch, it, got, seq, wo, snap>>

TimeBoundNext == FileAddUserKey \/ FileFinish \/ FileFinishOld \/ FileFilter

SpecTimeBound == TimeBoundInit /\ [][TimeBoundNext]_vars

\* The timestamps of the version keys of the file.
FileTimestamps ==
  {DecodeKey(codec.keys[i], kZeroTimestamp).ts : i \in 1..Len(codec.keys)} \ {kZeroTimestamp}

Enc(t) == EncodeTimestamp(t[1], t[2])

\* Lexicographic order of the encodings is the order of the timestamps.
OrderAgrees(a, b) ==
  /\ (SliceCompare(Enc(a), Enc(b)) < 0) = TsLess(a, b)
  /\ (SliceCompare(Enc(a), Enc(b)) = 0) = (a = b)

\* C31: the table filter never leaves out a file that holds a version key
\* with a timestamp in [min_ts, max_ts]; the properties the collector writes
\* are the encodings of the least and the greatest timestamp of the version
\* keys added; the encodings compare as the timestamps do; a file that lacks
\* a property is always read.
C31_TimeBoundFilter ==
  /\ \A a \in BoundTimestamps, b \in BoundTimestamps : OrderAgrees(a, b)
  /\ codec.op = "" =>
       /\ FileTimestamps = {} => codec.buf = NewCollector
       /\ FileTimestamps # {} =>
            /\ \E t \in FileTimestamps :
                 codec.buf.ts_min_ = Enc(t) /\ \A u \in FileTimestamps : TsLessEq(t, u)
            /\ \E t \in FileTimestamps :
                 codec.buf.ts_max_ = Enc(t) /\ \A u \in FileTimestamps : TsLessEq(u, t)
  /\ codec.op = "DBNewTimeBoundIter" =>
       /\ (\E t \in FileTimestamps :
             TsLessEq(codec.out.min_ts, t) /\ TsLessEq(t, codec.out.max_ts))
            => codec.out.read
       /\ (~codec.out.props.has_min \/ ~codec.out.props.has_max
           \/ codec.out.props.min = <<>> \/ codec.out.props.max = <<>>)
            => codec.out.read

\* A file of three version keys, added neither in ascending nor in
\* descending order, is read for a query that holds its middle timestamp
\* only.
C31_Witness ==
  /\ codec.op = "DBNewTimeBoundIter"
  /\ Len(codec.keys) = 3
  /\ codec.out.props.has_min /\ codec.out.props.min = Enc(<<1, 1>>)
  /\ codec.out.props.max = Enc(<<256, 256>>)
  /\ codec.keys[1] = EncodeKey(KeyA, 255, 0)
  /\ codec.out.min_ts = <<255, 0>> /\ codec.out.max_ts = <<256, 0>>
  /\ codec.out.read

\* C32: in every reachable state of a scanner, forward or reverse,
\* iters_before_seek_ lies in [1, kMaxItersBeforeSeek].
C32_StepBudgetInRange ==
  sc.iters_before_seek >= 1 /\ sc.iters_before_seek <= kMaxItersBeforeSeek

\* The lower half of C32: iters_before_seek_ never falls below 1. This holds.
C32_StepBudgetAtLeastOne == sc.iters_before_seek >= 1

\* The steps of C32: one step of a scan moves iters_before_seek_ by one at
\* most for each linear walk or seek it makes; here, for the steps that make
\* one walk, by one at most.
C32_StepBudgetMovesByOne ==
  [][sc'.iters_before_seek <= kMaxItersBeforeSeek
       => sc'.iters_before_seek - sc.iters_before_seek \in {-1, 0, 1}]_vars

\* The scanner's current entry is the one under the iterator, and nothing
\* is peeked.
AtIterator(s) ==
  /\ ~s.peeked
  /\ IterValid(s.pos) => s.cur_raw_key = store[s.pos].key /\ s.cur_value = store[s.pos].value

\* While peeked_ is set the iterator is one entry before the current entry,
\* of which cur_raw_key_ and cur_value_ hold the copy.
OneBehind(s) ==
  s.peeked =>
    /\ s.reverse
    /\ IterValid(s.pos) /\ IterValid(s.pos + 1)
    /\ s.cur_raw_key = store[s.pos + 1].key /\ s.cur_value = store[s.pos + 1].value
    /\ s.cur_key = DecodeKey(store[s.pos + 1].key, kZeroTimestamp).key

\* The scanner between two calls of getAndAdvance, and what iterPeekPrev
\* makes of it.
PeekStates ==
  {sc} \cup (IF sc.reverse /\ sc.pc = "loop" /\ IterValid(sc.pos)
             THEN {iterPeekPrev(sc).s} ELSE {})

\* The keys of the seeks.
PeekSeekKeys == {EncodeKey(k, 0, 0) : k \in {KeyA, KeyB, KeyC}}

\* C33: in the reverse scanner, while peeked_ is set the iterator stands one
\* entry before the scanner's current entry and cur_raw_key_/cur_value_ hold
\* the copy of the current entry; iterSeek, iterSeekReverse, iterNext,
\* iterPrev and the SeekToLast of advanceKeyAtEnd leave peeked_ unset and the
\* current entry that of the iterator.
C33_PeekedOneBehind ==
  sc.pc # "seek" =>
    /\ sc.peeked \/ AtIterator(sc)
    /\ \A s \in PeekStates :
         /\ OneBehind(s)
         /\ s.reverse =>
              /\ \A k \in PeekSeekKeys : AtIterator(iterSeek(s, k))
                                         /\ AtIterator(iterSeekReverse(s, k))
              /\ AtIterator(iterNext(s))
              /\ AtIterator(iterPrev(s))
              /\ AtIterator(advanceKeyAtEnd(s))

\* A reverse scanner that has peeked at the entry before a version row.
C33_Witness ==
  /\ sc.reverse /\ sc.peeked /\ sc.pc = "loop"
  /\ sc.cur_timestamp # kZeroTimestamp
  /\ sc.cur_raw_key = store[sc.pos + 1].key
  /\ AtIterator(iterNext(sc)) /\ iterNext(sc).pos = sc.pos + 2

\* ---------------------------------------------------------------------------
\* DBOpen on a shared block cache: DBNewCache, DBRefCache, DBMakeOptions,
\* DBOpenHook.
\* ---------------------------------------------------------------------------

\* options.write_buffer_size: 64 << 20.
kWriteBufferSize == 67108864

\* The number of DBOpen calls in flight, each on its own thread.
MaxOpens == 2

Opens == 1..MaxOpens

\* The DBCache structs: handle 1 is made by DBNewCache, the others by
\* DBRefCache from it. Each has a std::mutex mu of its own; all share rep.
CacheHandles == 1..MaxOpens

\* The sizes given to DBNewCache: less than one write buffer, between one
\* and two, and four.
CacheSizes == {1000, 100000000, 4 * kWriteBufferSize}

\* std::max<int64_t>(0, capacity - options.write_buffer_size)
NewCapacity(capacity) == Max(0, capacity - kWriteBufferSize)

RECURSIVE Reserved(_, _)
\* The capacity after n reservations of one write buffer.
Reserved(capacity, n) == IF n = 0 THEN capacity ELSE Reserved(Max(0, capacity - kWriteBufferSize), n - 1)

\* The threads of the DBOpen calls over one cache: codec.size holds the size
\* given to DBNewCache, codec.capacity the capacity of rep, codec.mu the
\* thread that holds the mutex of each DBCache (0: none), codec.opens the
\* DBOpen calls: the DBCache in db_opts.cache, the length of
\* db_opts.extra_options, the capacity read, the place in the code.
OpenInit ==
  /\ \E size \in CacheSizes :
       codec \in {[op |-> "DBOpen", size |-> size, capacity |-> size,
                   mu |-> [h \in CacheHandles |-> 0],
                   opens |-> [p \in Opens |-> [cache |-> hs[p], extra_options |-> xs[p],
                                               capacity |-> 0, pc |-> "DBMakeOptions"]]] :
                    hs \in [Opens -> CacheHandles], xs \in [Opens -> {0, 1}]}
  /\ store = <<>>
  /\ batch = NoBatch
  /\ wo = NoWriteOnlyBatch
  /\ it = NoIter
  /\ got = NoGot
  /\ sc = IdleScanner
  /\ seq = 0
  /\ snap = NoSnapshot

\* std::lock_guard<std::mutex> guard(db_opts.cache->mu)
OpenLock(p) ==
  /\ codec.opens[p].pc = "DBMakeOptions"
  /\ codec.mu[codec.opens[p].cache] = 0
  /\ codec' = [codec EXCEPT !.mu[codec.opens[p].cache] = p, !.opens[p].pc = "GetCapacity"]
  /\ UNCHANGED <<store, sc, batch, it, got, seq, wo, snap>>

\* const int64_t capacity = db_opts.cache->rep->GetCapacity()
OpenGetCapacity(p) ==
  /\ codec.opens[p].pc = "GetCapacity"
  /\ codec' = [codec EXCEPT !.opens[p].capacity = codec.capacity,
                            !.opens[p].pc = "SetCapacity"]
  /\ UNCHANGED <<store, sc, batch, it, got, seq, wo, snap>>

\* rep->SetCapacity(new_capacity), and the end of the guard's scope.
OpenSetCapacity(p) ==
  /\ codec.opens[p].pc = "SetCapacity"
  /\ codec' = [codec EXCEPT !.capacity = NewCapacity(codec.opens[p].capacity),
                            !.mu[codec.opens[p].cache] = 0,
                            !.opens[p].pc = "DBOpenHook"]
  /\ UNCHANGED <<store, sc, batch, it, got, seq, wo, snap>>

\* DBOpenHook and the return that follows it.
OpenHook(p) ==
  /\ codec.opens[p].pc = "DBOpenHook"
  /\ codec' = [codec EXCEPT !.opens[p].pc = IF codec.opens[p].extra_options # 0
                                            THEN "failed" ELSE "Open"]
  /\ UNCHANGED <<store, sc, batch, it, got, seq, wo, snap>>

\* rocksdb::DB::Open, which succeeds or hands back an error.
OpenLsm(p) ==
  /\ codec.opens[p].pc = "Open"
  /\ \E ok \in BOOLEAN :
       codec' = [codec EXCEPT !.opens[p].pc = IF ok THEN "open" ELSE "failed"]
  /\ UNCHANGED <<store, sc, batch, it, got, seq, wo, snap>>

OpenNext ==
  \E p \in Opens : OpenLock(p) \/ OpenGetCapacity(p) \/ OpenSetCapacity(p)
                   \/ OpenHook(p) \/ OpenLsm(p)

SpecOpen == OpenInit /\ [][OpenNext]_vars

\* The calls that are past DBMakeOptions, those that returned, those that
\* returned kSuccess.
PastOptions == {p \in Opens : codec.opens[p].pc \in {"DBOpenHook", "Open", "open", "failed"}}
Returned == {p \in Opens : codec.opens[p].pc \in {"open", "failed"}}
Opened == {p \in Opens : codec.opens[p].pc = "open"}

\* The calls between their GetCapacity and the end of their SetCapacity.
InCapacitySteps == {p \in Opens : codec.opens[p].pc \in {"GetCapacity", "SetCapacity"}}

\* C34: for engines opened concurrently on one block cache, the capacity
\* steps of two opens never interleave, and after n opens have made their
\* reservation the capacity is the size of the cache reduced n times by the
\* write-buffer size, each time clamped at 0.
C34_NoLostReservation ==
  /\ Cardinality(InCapacitySteps) <= 1
  /\ InCapacitySteps = {} => codec.capacity = Reserved(codec.size, Cardinality(PastOptions))

\* The same for opens that are all given one and the same DBCache: this holds.
C34_OneHandle ==
  (\A p \in Opens, q \in Opens : codec.opens[p].cache = codec.opens[q].cache) =>
    /\ Cardinality(InCapacitySteps) <= 1
    /\ InCapacitySteps = {} => codec.capacity = Reserved(codec.size, Cardinality(PastOptions))

\* C40: once every DBOpen call has returned, the capacity of the cache is
\* its size less one write buffer for each call that returned kSuccess: a
\* call that failed has taken nothing.
C40_FailedOpenReservesNothing ==
  Returned = Opens => codec.capacity = Reserved(codec.size, Cardinality(Opened))

\* What does hold: every call, failed or not, has taken one write buffer,
\* when the calls are all given one and the same DBCache.
C40_EveryOpenReserves ==
  (/\ Returned = Opens
   /\ \A p \in Opens, q \in Opens : codec.opens[p].cache = codec.opens[q].cache)
    => codec.capacity = Reserved(codec.size, MaxOpens)

\* ---------------------------------------------------------------------------
\* DBCompactRange.
\* ---------------------------------------------------------------------------

\* const uint64_t target_size = 128 << 20
kCompactTargetSize == 134217728

\* db->rep->NumberLevels()
NumberLevels == 7

\* A rocksdb::Slice* argument of CompactRange: nullptr, or a key.
Nullptr == [null |-> TRUE, key |-> <<>>]
PtrTo(k) == [null |-> FALSE, key |-> k]

\* The first loop of DBCompactRange: the SSTables that are not outside the
\* range, in the order of all_metadata.
InCompactRange(all_metadata, start_key, end_key) ==
  SelectSeq(all_metadata,
            LAMBDA m : ~(\/ (start_key # <<>> /\ SliceCompare(m.largestkey, start_key) < 0)
                         \/ (end_key # <<>> /\ SliceCompare(m.smallestkey, end_key) >= 0)))

RECURSIVE MaxLevelOf(_)
MaxLevelOf(metadata) ==
  IF metadata = <<>> THEN 0 ELSE Max(Head(metadata).level, MaxLevelOf(Tail(metadata)))

RECURSIVE SortBySmallest(_)
\* std::sort by smallestkey; the files of one level have different smallest keys.
SortBySmallest(sst) ==
  IF sst = <<>> THEN <<>>
  ELSE LET least == CHOOSE i \in 1..Len(sst) :
                      \A j \in 1..Len(sst) : SliceCompare(sst[i].smallestkey, sst[j].smallestkey) <= 0
       IN <<sst[least]>> \o SortBySmallest([k \in 1..(Len(sst) - 1) |->
                                               IF k < least THEN sst[k] ELSE sst[k + 1]])

RECURSIVE CompactWalk(_, _, _, _, _, _)
\* The walk over the bottom-most sstables from sst[i] on; calls are the
\* CompactRange calls made so far and fail_at the call that hands back an
\* error (0: none does).
CompactWalk(sst, i, last_ptr, size, calls, fail_at) ==
  IF i > Len(sst)
  THEN IF size > 0
       THEN [calls |-> Append(calls, [begin |-> last_ptr, end |-> Nullptr]),
             status |-> IF fail_at = Len(calls) + 1 THEN "CompactRange failed" ELSE ""]
       ELSE [calls |-> calls, status |-> ""]
  ELSE LET sz == size + sst[i].size
       IN IF sz < kCompactTargetSize
          THEN CompactWalk(sst, i + 1, last_ptr, sz, calls, fail_at)
          ELSE LET cur == PtrTo(sst[i].largestkey)
                   made == Append(calls, [begin |-> last_ptr, end |-> cur])
               IN IF fail_at = Len(made)
                  THEN [calls |-> made, status |-> "CompactRange failed"]
                  ELSE CompactWalk(sst, i + 1, cur, 0, made, fail_at)

\* DBCompactRange: the CompactRange calls it makes and the DBStatus it returns.
DBCompactRange(all_metadata, start_key, end_key, fail_at) ==
  LET metadata == InCompactRange(all_metadata, start_key, end_key)
      max_level == MaxLevelOf(metadata)
  IN IF max_level # NumberLevels - 1
     THEN [calls |-> <<[begin |-> IF start_key # <<>> THEN PtrTo(start_key) ELSE Nullptr,
                        end |-> IF end_key # <<>> THEN PtrTo(end_key) ELSE Nullptr]>>,
           status |-> IF fail_at = 1 THEN "CompactRange failed" ELSE ""]
     ELSE CompactWalk(SortBySmallest(SelectSeq(metadata, LAMBDA m : m.level = max_level)),
                      1, Nullptr, 0, <<>>, fail_at)

\* The sstables of the calls: up to MaxBottomFiles files of the bottom-most
\* level (or all of them one level higher), of 64 or 128 MiB, and one file
\* of level 0 that overlaps them; all_metadata lists them in either order.
MaxBottomFiles == 4

SstFile(level, n, size) ==
  [level |-> level, smallestkey |-> <<2 * n - 1>>, largestkey |-> <<2 * n>>, size |-> size]

BottomFiles(level) ==
  {[i \in 1..n |-> SstFile(level, i, sizes[i])] :
     n \in 1..MaxBottomFiles, sizes \in [1..MaxBottomFiles -> {67108864, 134217728}]}

Reversed(s) == [i \in 1..Len(s) |-> s[Len(s) + 1 - i]]

LiveFiles ==
  LET bottoms == BottomFiles(NumberLevels - 1) \cup BottomFiles(NumberLevels - 2)
      upper == [level |-> 0, smallestkey |-> <<2>>, largestkey |-> <<5>>, size |-> 1048576]
  IN bottoms \cup {Reversed(b) : b \in bottoms} \cup {<<upper>> \o b : b \in bottoms}

\* One call of DBCompactRange: codec.keys holds all_metadata, codec.buf the
\* start and end keys and the CompactRange call that fails.
CompactInit ==
  /\ codec \in {[NoCodec EXCEPT !.keys = files, !.buf = <<r[1], r[2], fail_at>>] :
                  files \in LiveFiles,
                  r \in {<<<<>>, <<>>>>, <<<<3>>, <<7>>>>, <<<<>>, <<5>>>>, <<<<4>>, <<>>>>},
                  fail_at \in 0..2}
  /\ store = <<>>
  /\ batch = NoBatch
  /\ wo = NoWriteOnlyBatch
  /\ it = NoIter
  /\ got = NoGot
  /\ sc = IdleScanner
  /\ seq = 0
  /\ snap = NoSnapshot

CompactRangeCall ==
  /\ codec.op = ""
  /\ codec' = [codec EXCEPT !.op = "DBCompactRange",
                            !.out = DBCompactRange(codec.keys, codec.buf[1], codec.buf[2],
                                                   codec.buf[3])]
  /\ UNCHANGED <<store, sc, batch, it, got, seq, wo, snap>>

SpecCompact == CompactInit /\ [][CompactRangeCall]_vars

\* The bottom-most sstables of the range, by smallest key.
BottomInRange ==
  SortBySmallest(SelectSeq(codec.keys,
    LAMBDA m : /\ m.level = NumberLevels - 1
               /\ codec.buf[1] # <<>> => SliceCompare(m.largestkey, codec.buf[1]) >= 0
               /\ codec.buf[2] # <<>> => SliceCompare(m.smallestkey, codec.buf[2]) < 0))

RECURSIVE Accumulated(_, _)
\* The size accumulated at file i of fs since the last chunk was closed.
Accumulated(fs, i) ==
  IF i = 0 THEN 0
  ELSE (IF Accumulated(fs, i - 1) >= kCompactTargetSize THEN 0 ELSE Accumulated(fs, i - 1))
         + fs[i].size

\* The files at which the accumulated size reaches 128 MiB, in order.
ChunkEnds(fs) ==
  SelectSeq([i \in 1..Len(fs) |-> i], LAMBDA i : Accumulated(fs, i) >= kCompactTargetSize)

\* The calls the walk over fs is to make when none fails.
PlannedCalls(fs) ==
  LET ends == ChunkEnds(fs)
      chunk(j) == [begin |-> IF j = 1 THEN Nullptr ELSE PtrTo(fs[ends[j - 1]].largestkey),
                   end |-> PtrTo(fs[ends[j]].largestkey)]
      chunks == [j \in 1..Len(ends) |-> chunk(j)]
  IN IF Accumulated(fs, Len(fs)) < kCompactTargetSize
     THEN Append(chunks, [begin |-> IF ends = <<>> THEN Nullptr
                                    ELSE PtrTo(fs[ends[Len(ends)]].largestkey),
                          end |-> Nullptr])
     ELSE chunks

CompactDone == codec.op = "DBCompactRange"

\* The call found bottom-most sstables in its range.
Chunked ==
  /\ CompactDone
  /\ \E i \in 1..Len(codec.keys) : codec.keys[i].level = NumberLevels - 1
  /\ BottomInRange # <<>>

\* The calls made are the planned ones up to the first that fails.
WalksInChunks ==
  LET planned == PlannedCalls(BottomInRange)
      fail_at == codec.buf[3]
  IN IF fail_at \in 1..Len(planned)
     THEN codec.out.calls = SubSeq(planned, 1, fail_at) /\ codec.out.status # ""
     ELSE codec.out.calls = planned /\ codec.out.status = ""

\* Every call made lies inside [start, end).
InsideRange ==
  \A j \in 1..Len(codec.out.calls) :
    LET c == codec.out.calls[j]
    IN /\ codec.buf[1] # <<>> => ~c.begin.null /\ SliceCompare(c.begin.key, codec.buf[1]) >= 0
       /\ codec.buf[2] # <<>> => ~c.end.null /\ SliceCompare(c.end.key, codec.buf[2]) <= 0

\* C35: when the range holds bottom-most sstables, DBCompactRange walks
\* them by smallest key, makes a CompactRange call whenever the accumulated
\* size reaches 128 MiB, each from the upper bound of the call before, with an
\* open-ended last call for the remainder; the first error ends the walk;
\* and every call it makes lies inside [start, end).
C35_ChunkedInsideRange ==
  Chunked => WalksInChunks /\ InsideRange

\* The walk of C35 without the range of the calls: this holds.
C35_WalksInChunks ==
  Chunked => WalksInChunks

\* ---------------------------------------------------------------------------
\* MVCCComputeStats.
\* ---------------------------------------------------------------------------

\* const int64_t kNanosecondPerSecond = 1e9
kNanosecondPerSecond == 1000000000

\* kLocalMax is defined in keys.h, which is not among the sources: the end
\* of the local keys, the single byte 02.
kLocalMax == <<2>>

\* An age_factor that does not round the two times to seconds first.
age_factorOfDifference(fromNS, toNS) == (toNS - fromNS) \div kNanosecondPerSecond

\* age_factor; the times of the model are not negative, where / and \div agree.
age_factor(fromNS, toNS) == (toNS \div kNanosecondPerSecond) - (fromNS \div kNanosecondPerSecond)

\* The MVCCMetadata of the stats rows: the fields of NoMeta and deleted,
\* key_bytes, val_bytes, and size, the length of the serialized message.
StatsMeta(deleted, key_bytes, val_bytes, wall_time, has_txn, has_raw, size) ==
  [f \in DOMAIN NoMeta \cup {"deleted", "key_bytes", "val_bytes", "size"} |->
     CASE f = "deleted" -> deleted
       [] f = "key_bytes" -> key_bytes
       [] f = "val_bytes" -> val_bytes
       [] f = "size" -> size
       [] f = "timestamp" -> <<wall_time, 0>>
       [] f = "has_txn" -> has_txn
       [] f = "has_raw" -> has_raw
       [] OTHER -> NoMeta[f]]

\* meta.Clear()
ClearedMeta == StatsMeta(FALSE, 0, 0, 0, FALSE, FALSE, 0)

\* value.size()
StatsValueSize(v) == IF v.kind = "meta" THEN v.meta.size ELSE Len(v.bytes)

\* memset(&stats, 0, sizeof(stats))
ZeroStats ==
  [status |-> "", live_bytes |-> 0, key_bytes |-> 0, val_bytes |-> 0, intent_bytes |-> 0,
   live_count |-> 0, key_count |-> 0, val_count |-> 0, intent_count |-> 0,
   intent_age |-> 0, gc_bytes_age |-> 0, sys_bytes |-> 0, sys_count |-> 0,
   last_update_nanos |-> 0]

\* The body of the loop of MVCCComputeStatsInternal from "if (!isValue ||
\* implicitMeta)" to the continue: the row of a key, or of its implied
\* metadata. l holds the locals of the loop.
StatsMetaPart(l, d, isSys, implicitMeta, vsize, now_nanos) ==
  LET meta_key_size == Len(d.key) + 1
      meta_val_size == IF implicitMeta THEN 0 ELSE vsize
      total_bytes == meta_key_size + meta_val_size
      s == l.stats
  IN IF isSys
     THEN [l EXCEPT !.first = TRUE,
                    !.stats = [s EXCEPT !.sys_bytes = @ + total_bytes, !.sys_count = @ + 1]]
     ELSE [l EXCEPT !.first = TRUE,
                    !.stats =
                      [s EXCEPT
                         !.live_bytes = IF ~l.meta.deleted THEN @ + total_bytes ELSE @,
                         !.live_count = IF ~l.meta.deleted THEN @ + 1 ELSE @,
                         !.gc_bytes_age =
                           IF l.meta.deleted
                           THEN @ + total_bytes * age_factor(l.meta.timestamp[1], now_nanos)
                           ELSE @,
                         !.key_bytes = @ + meta_key_size,
                         !.val_bytes = @ + meta_val_size,
                         !.key_count = @ + 1,
                         !.val_count = IF l.meta.has_raw THEN @ + 1 ELSE @]]

\* The rest of the body: a version row. The wall times of the model are
\* positive, so that assert(accrue_gc_age_nanos > 0) holds.
StatsVersionPart(l, wall_time, isSys, vsize, now_nanos) ==
  LET total_bytes == vsize + kMVCCVersionTimestampSize
      s == l.stats
      counted(t) == [t EXCEPT !.key_bytes = @ + kMVCCVersionTimestampSize,
                              !.val_bytes = @ + vsize, !.val_count = @ + 1]
  IN IF isSys THEN [l EXCEPT !.stats.sys_bytes = @ + total_bytes]
     ELSE IF l.first
     THEN LET t == [s EXCEPT
                      !.live_bytes = IF ~l.meta.deleted THEN @ + total_bytes ELSE @,
                      !.gc_bytes_age =
                        IF l.meta.deleted
                        THEN @ + total_bytes * age_factor(l.meta.timestamp[1], now_nanos)
                        ELSE @,
                      !.intent_bytes = IF l.meta.has_txn THEN @ + total_bytes ELSE @,
                      !.intent_count = IF l.meta.has_txn THEN @ + 1 ELSE @,
                      !.intent_age =
                        IF l.meta.has_txn
                        THEN @ + age_factor(l.meta.timestamp[1], now_nanos) ELSE @]
          IN IF l.meta.key_bytes # kMVCCVersionTimestampSize
             THEN [l EXCEPT !.first = FALSE,
                            !.stats = [t EXCEPT !.status = "expected mvcc metadata key bytes"]]
             ELSE IF l.meta.val_bytes # vsize
             THEN [l EXCEPT !.first = FALSE,
                            !.stats = [t EXCEPT !.status = "expected mvcc metadata val bytes"]]
             ELSE [l EXCEPT !.first = FALSE, !.stats = counted(t),
                            !.accrue_gc_age_nanos = l.meta.timestamp[1]]
     ELSE [l EXCEPT
             !.stats = counted([s EXCEPT !.gc_bytes_age =
                                  @ + total_bytes
                                      * age_factor(IF vsize = 0 THEN wall_time
                                                   ELSE l.accrue_gc_age_nanos, now_nanos)]),
             !.accrue_gc_age_nanos = wall_time]

RECURSIVE StatsLoop(_, _, _, _, _)
\* The for loop of MVCCComputeStatsInternal from row p on.
StatsLoop(rows, p, end_key, now_nanos, l) ==
  IF p > Len(rows) \/ Compare(rows[p].key, end_key) >= 0 THEN l
  ELSE
    LET d == DecodeKey(rows[p].key, kZeroTimestamp)
        vsize == StatsValueSize(rows[p].value)
        isSys == SliceCompare(d.key, kLocalMax) < 0
        isValue == d.ts # kZeroTimestamp
        implicitMeta == isValue /\ d.key # l.prev_key
        l1 == [l EXCEPT !.prev_key = d.key,
                        !.meta = IF implicitMeta
                                 THEN StatsMeta(vsize = 0, kMVCCVersionTimestampSize, vsize,
                                                d.ts[1], FALSE, FALSE, 0)
                                 ELSE @]
    IN IF ~d.ok THEN [l EXCEPT !.stats.status = "unable to decode key"]
       ELSE IF ~isValue
       THEN LET parsed == ParseFromArray(rows[p].value)
            IN IF ~parsed.ok
               THEN [l1 EXCEPT !.first = TRUE,
                               !.stats.status = "unable to decode MVCCMetadata"]
               ELSE StatsLoop(rows, p + 1, end_key, now_nanos,
                              StatsMetaPart([l1 EXCEPT !.meta = IF parsed.meta = NoMeta THEN ClearedMeta
                                                               ELSE parsed.meta],
                                            d, isSys, FALSE,
                                            vsize, now_nanos))
       ELSE LET l2 == IF implicitMeta
                      THEN StatsMetaPart(l1, d, isSys, TRUE, vsize, now_nanos) ELSE l1
                l3 == StatsVersionPart(l2, d.ts[1], isSys, vsize, now_nanos)
            IN IF l3.stats.status # "" THEN l3
               ELSE StatsLoop(rows, p + 1, end_key, now_nanos, l3)

\* MVCCComputeStatsInternal: the MVCCStatsResult.
MVCCComputeStats(rows, start, end, now_nanos) ==
  LET l == StatsLoop(rows, SeekPosIn(rows, EncodeKey(start.key, start.wall_time, start.logical)),
                     EncodeKey(end.key, end.wall_time, end.logical), now_nanos,
                     [stats |-> ZeroStats, meta |-> ClearedMeta, prev_key |-> <<>>,
                      first |-> FALSE, accrue_gc_age_nanos |-> 0])
  IN IF l.stats.status # "" THEN l.stats
     ELSE [l.stats EXCEPT !.last_update_nanos = now_nanos]


\* The rows of the stats stores.
StatsVersion(k, wall, len) ==
  [key |-> EncodeKey(k, wall, 0), value |-> RawValue([i \in 1..len |-> 7])]

\* The metadata row of an intent on the version (wall, len) of k; its
\* serialized message has 20 bytes.
StatsIntent(k, wall, len, val_bytes) ==
  [key |-> EncodeKey(k, 0, 0),
   value |-> [kind |-> "meta", bytes |-> <<>>,
              meta |-> StatsMeta(len = 0, kMVCCVersionTimestampSize, val_bytes, wall,
                                 TRUE, FALSE, 20)]]

\* The row of an inline value of k, a serialized message of 9 bytes.
StatsInline(k) ==
  [key |-> EncodeKey(k, 0, 0),
   value |-> [kind |-> "meta", bytes |-> <<>>,
              meta |-> StatsMeta(FALSE, 0, 0, 0, FALSE, TRUE, 9)]]

\* The wall times of the versions of a key, newest first: two within one
\* second of each other on both sides of a whole second, and an older one.
StatsWalls == <<2000000000, 1999999999, 500000000>>

MaxStatsVersions == 3

\* The versions of k: up to MaxStatsVersions rows, each a tombstone or a
\* value of 2 bytes, with or without an intent on the newest.
StatsVersions(k) ==
  LET rows(n, lens) == [i \in 1..n |-> StatsVersion(k, StatsWalls[i], lens[i])]
      plain == {rows(n, lens) : n \in 1..MaxStatsVersions,
                                lens \in [1..MaxStatsVersions -> {0, 2}]}
  IN plain \cup {<<StatsIntent(k, StatsWalls[1], StatsValueSize(r[1].value),
                               StatsValueSize(r[1].value))>> \o r : r \in plain}

StatsStores ==
  { a \o b \o c :
      a \in {<<>>, <<StatsInline(KeyA)>>,
             <<StatsVersion(KeyA, StatsWalls[1], 0), StatsVersion(KeyA, StatsWalls[3], 2)>>,
             <<StatsIntent(KeyA, StatsWalls[2], 2, 2), StatsVersion(KeyA, StatsWalls[2], 2)>>},
      b \in StatsVersions(KeyB) \cup {<<StatsInline(KeyB)>>},
      c \in {<<>>,
             <<StatsVersion(KeyC, StatsWalls[2], 2), StatsVersion(KeyC, StatsWalls[3], 2)>>,
             <<StatsIntent(KeyC, StatsWalls[2], 2, 3), StatsVersion(KeyC, StatsWalls[2], 2)>>} }

\* One call of MVCCComputeStats: codec.keys holds start and end, codec.buf
\* now_nanos.
StatsInit ==
  /\ store \in StatsStores
  /\ codec \in {[NoCodec EXCEPT !.keys = <<MetaKey(s), MetaKey(<<4>>)>>, !.buf = <<now>>] :
                  s \in {KeyA, KeyB}, now \in {2000000000, 2100000000}}
  /\ batch = NoBatch
  /\ wo = NoWriteOnlyBatch
  /\ it = NoIter
  /\ got = NoGot
  /\ sc = IdleScanner
  /\ seq = 0
  /\ snap = NoSnapshot

ComputeStats ==
  /\ codec.op = ""
  /\ codec' = [codec EXCEPT !.op = "MVCCComputeStats",
                            !.out = MVCCComputeStats(store, codec.keys[1], codec.keys[2],
                                                     codec.buf[1])]
  /\ UNCHANGED <<store, sc, batch, it, got, seq, wo, snap>>

SpecStats == StatsInit /\ [][ComputeStats]_vars

RECURSIVE SeqSum(_)
SeqSum(s) == IF s = <<>> THEN 0 ELSE Head(s) + SeqSum(Tail(s))

\* Row i of the store lies in [start, end).
StatsInRange(i) ==
  /\ Compare(store[i].key, EncodeKey(codec.keys[1].key, 0, 0)) >= 0
  /\ Compare(store[i].key, EncodeKey(codec.keys[2].key, 0, 0)) < 0

StatsWall(i) == DecodeKey(store[i].key, kZeroTimestamp).ts[1]
StatsIsSys(i) == SliceCompare(UserKeyOf(store[i]), kLocalMax) < 0
StatsIsVersion(i) == StatsWall(i) # 0
StatsSameKeyBefore(i) ==
  i > 1 /\ StatsInRange(i - 1) /\ UserKeyOf(store[i - 1]) = UserKeyOf(store[i])

\* Row i is the newest version of its key.
StatsNewest(i) ==
  StatsIsVersion(i) /\ ~(StatsSameKeyBefore(i) /\ StatsIsVersion(i - 1))

StatsTombstone(i) == StatsValueSize(store[i].value) = 0

\* A version row that is not live: not the newest of its key, or a tombstone.
NonLive(i) == StatsIsVersion(i) /\ (~StatsNewest(i) \/ StatsTombstone(i))

AgeSince(from_ns) ==
  (codec.buf[1] \div kNanosecondPerSecond) - (from_ns \div kNanosecondPerSecond)

\* What C36 gives for a version row that is not live.
VersionGcAge(i) ==
  (StatsValueSize(store[i].value) + 12)
    * AgeSince(IF StatsTombstone(i) THEN StatsWall(i) ELSE StatsWall(i - 1))

\* What the key of a deleted newest version adds for its metadata: the key
\* bytes and one byte, and the bytes of the metadata row when there is one.
MetaGcAge(i) ==
  (Len(UserKeyOf(store[i])) + 1
     + (IF StatsSameKeyBefore(i) THEN StatsValueSize(store[i - 1].value) ELSE 0))
    * AgeSince(StatsWall(i))

ExpectedGcBytesAge ==
  SeqSum([i \in 1..Len(store) |->
            IF ~StatsInRange(i) \/ StatsIsSys(i) THEN 0
            ELSE (IF NonLive(i) THEN VersionGcAge(i) ELSE 0)
                 + (IF StatsNewest(i) /\ StatsTombstone(i) THEN MetaGcAge(i) ELSE 0)])

\* What the rows of the keys below kLocalMax add to sys_bytes.
ExpectedSysBytes ==
  SeqSum([i \in 1..Len(store) |->
            IF ~StatsInRange(i) \/ ~StatsIsSys(i) THEN 0
            ELSE IF ~StatsIsVersion(i)
                 THEN Len(UserKeyOf(store[i])) + 1 + StatsValueSize(store[i].value)
                 ELSE StatsValueSize(store[i].value) + 12
                      + (IF StatsSameKeyBefore(i) THEN 0 ELSE Len(UserKeyOf(store[i])) + 1)])

ExpectedSysCount ==
  Cardinality({i \in 1..Len(store) :
                 StatsInRange(i) /\ StatsIsSys(i) /\ ~StatsSameKeyBefore(i)})

\* The store without the rows of the keys below kLocalMax.
WithoutSys == SelectSeq(store, LAMBDA r : SliceCompare(UserKeyOf(r), kLocalMax) >= 0)

StatsDone == codec.op = "MVCCComputeStats"

\* C36: for the keys that are not system keys, gc_bytes_age is the sum, over
\* the version rows that are not live, of (value bytes + 12) times
\* (now_ns / 1e9 - from_ns / 1e9) in integer division, from_ns being the
\* row's own timestamp for a tombstone and the timestamp of the next newer
\* version of the key otherwise (plus what the metadata of a deleted key
\* adds); the rows of the keys below kLocalMax add to sys_bytes and
\* sys_count and to nothing else.
C36_GcBytesAgeAndSys ==
  (StatsDone /\ codec.out.status = "") =>
    /\ codec.out.gc_bytes_age = ExpectedGcBytesAge
    /\ codec.out.sys_bytes = ExpectedSysBytes
    /\ codec.out.sys_count = ExpectedSysCount
    /\ [codec.out EXCEPT !.sys_bytes = 0, !.sys_count = 0]
         = MVCCComputeStats(WithoutSys, codec.keys[1], codec.keys[2], codec.buf[1])

\* A scan over system rows and over a key with three versions, a value
\* after a tombstone after a value, read two seconds after the newest.
C36_Witness ==
  /\ StatsDone /\ codec.out.status = ""
  /\ codec.buf[1] = 2100000000
  /\ codec.out.sys_count = 1 /\ codec.out.sys_bytes = 28
  /\ \E i \in 1..Len(store) :
       /\ UserKeyOf(store[i]) = KeyB /\ StatsNewest(i) /\ ~StatsTombstone(i)
       /\ i + 2 <= Len(store) /\ UserKeyOf(store[i + 2]) = KeyB
       /\ StatsTombstone(i + 1) /\ ~StatsTombstone(i + 2)
  /\ codec.out.gc_bytes_age > 0

RECURSIVE ScanToEnd(_)
\* mvccScanner::scan from the state s to its return.
ScanToEnd(s) ==
  IF s.pc = "seek"
  THEN ScanToEnd(Sought(IF s.op = "scan" /\ s.reverse
                        THEN Run(iterSeekReverse(s, EncodeKey(s.start_key, 0, 0)))
                        ELSE iterSeek(s, EncodeKey(s.start_key, 0, 0))))
  ELSE IF s.pc = "loop" THEN ScanToEnd(Advanced(Run(getAndAdvance(s))))
  ELSE IF s.pc = "fill" THEN [fillResults(s) EXCEPT !.pc = "done"]
  ELSE s

\* MVCCScan with reverse = false for the arguments of the reverse scan sc.
ForwardOfReverse ==
  ScanToEnd(mvccScanner("scan", sc.end_key, sc.start_key, sc.timestamp, sc.max_keys,
                        [id |-> sc.txn_id, epoch |-> sc.txn_epoch,
                         max_timestamp |-> sc.txn_max_timestamp],
                        sc.consistent, FALSE))

\* A reverse scan that has returned, with a max_keys above the number of
\* keys of the store.
ReverseReturned ==
  sc.op = "scan" /\ sc.reverse /\ sc.pc = "done" /\ sc.max_keys = MaxKeys

NoRowTwice(rows) ==
  \A i \in 1..Len(rows), j \in 1..Len(rows) : i # j => rows[i].key # rows[j].key

\* The scan returned rows: no error status and no uncertainty timestamp.
ReturnedRows(r) == r.status = "" /\ r.uncertainty_timestamp = kZeroTimestamp

BothReturnedRows ==
  ReverseReturned /\ ReturnedRows(sc.results) /\ ReturnedRows(ForwardOfReverse.results)

\* No user key of the store has as many rows as half the largest number of
\* steps the scanner takes before it seeks.
ShortKeys ==
  \A k \in {KeyA, KeyB, KeyC} :
    Cardinality({i \in 1..Len(store) : UserKeyOf(store[i]) = k}) < kMaxItersBeforeSeek \div 2

\* C37: a reverse MVCCScan over [start, end) that is not truncated returns
\* the rows and the intents of the forward MVCCScan over [start, end) with
\* the same store, timestamp, transaction and consistency, in reverse order,
\* and no row twice.
C37_ReverseIsForwardReversed ==
  BothReturnedRows =>
    /\ sc.results.data = Reversed(ForwardOfReverse.results.data)
    /\ sc.results.intents = Reversed(ForwardOfReverse.results.intents)
    /\ NoRowTwice(sc.results.data)

\* The same for the stores in which every user key has few rows.
C37_ShortKeys ==
  (BothReturnedRows /\ ShortKeys) =>
    /\ sc.results.data = Reversed(ForwardOfReverse.results.data)
    /\ sc.results.intents = Reversed(ForwardOfReverse.results.intents)
    /\ NoRowTwice(sc.results.data)


(***************************************************************************)
(* Reads through an indexed batch against reads of the store once the      *)
(* batch is committed: the batch is written with byte values and with time *)
(* series operands, over stores that hold a key or not.                    *)
(***************************************************************************)
\* A time series with its samples in order, and one whose samples are not.
SortedSeries == TimeSeriesValue(1, 1, <<Sample(2, 21), Sample(3, 22)>>)
UnsortedSeries == TimeSeriesValue(1, 1, <<Sample(3, 31), Sample(1, 32)>>)

\* The values put and the operands merged.
ReadPutValues == {Hello, SortedSeries}
ReadMergeOperands == {World, SortedSeries, UnsortedSeries}

\* The stores under the batch: empty, a byte value or a time series at KeyA.
ReadStores ==
  { <<>>,
    <<[key |-> EncodeKey(KeyA, 0, 0), value |-> Hello]>>,
    <<[key |-> EncodeKey(KeyA, 0, 0), value |-> TimeSeriesValue(1, 1, <<Sample(1, 11)>>)],
      [key |-> EncodeKey(KeyB, 0, 0), value |-> World]>> }

ReadInit ==
  /\ store \in ReadStores
  /\ batch = NewBatch
  /\ it = NoIter
  /\ got = NoGot
  /\ sc = IdleScanner
  /\ seq = 0
  /\ wo = NoWriteOnlyBatch
  /\ snap = NoSnapshot
  /\ codec = NoCodec

\* DBPut on the batch.
ReadPut ==
  /\ CanWrite(1)
  /\ \E k \in BatchKeys, v \in ReadPutValues : batch' = DBBatch_Put(batch, k, v)
  /\ got' = NoGot
  /\ UNCHANGED <<store, sc, it, others>>

\* DBMerge on the batch.
ReadMerge ==
  /\ CanWrite(1)
  /\ \E k \in BatchKeys, v \in ReadMergeOperands : batch' = DBBatch_Merge(batch, k, v)
  /\ got' = NoGot
  /\ UNCHANGED <<store, sc, it, others>>

\* DBDelete on the batch.
ReadDelete ==
  /\ CanWrite(1)
  /\ \E k \in BatchKeys : batch' = DBBatch_Delete(batch, k)
  /\ got' = NoGot
  /\ UNCHANGED <<store, sc, it, others>>

\* DBGet on the batch.
ReadGet ==
  /\ batch.open
  /\ \E k \in BatchKeys : got' = DBBatch_Get(batch, store, k)
  /\ UNCHANGED <<store, sc, batch, it, others>>

\* DBCommitAndCloseBatch: no other writer has touched the store.
ReadCommit ==
  /\ batch.open
  /\ store' = DBBatch_CommitBatch(batch, store, FALSE).rows
  /\ got' = [status |-> DBBatch_CommitBatch(batch, store, FALSE).status,
             value |-> NullValue]
  /\ batch' = NoBatch
  /\ UNCHANGED <<sc, it, others>>

\* DBGet on the DBImpl once the batch is committed.
ReadStoreGet ==
  /\ ~batch.open
  /\ \E k \in BatchKeys : got' = DBImpl_Get(store, k)
  /\ UNCHANGED <<store, sc, batch, it, others>>

ReadNext ==
  \/ ReadPut \/ ReadMerge \/ ReadDelete \/ ReadGet \/ ReadCommit \/ ReadStoreGet

SpecReadYourWrites == ReadInit /\ [][ReadNext]_vars

\* What DBGet on the store hands back for key k after the batch is committed.
GetAfterCommit(k) == DBImpl_Get(DBBatch_CommitBatch(batch, store, FALSE).rows, k)

\* Two reads agree: both fail, or both succeed with the same value (NULL
\* data for a missing key included).
SameRead(a, b) ==
  /\ (a.status = "") <=> (b.status = "")
  /\ a.status = "" => a.value = b.value

\* C38: in every state of an open indexed batch written with Put, Merge and
\* Delete, Get on the batch hands back for every key what Get on the store
\* hands back once the batch is committed.
C38_ReadYourWritesIsCommit ==
  batch.open => \A k \in BatchKeys : SameRead(DBBatch_Get(batch, store, k), GetAfterCommit(k))


\* No operand merged into the batch is a time series with samples out of
\* order.
OperandsInOrder ==
  \A i \in 1..Len(batch.batch) :
    batch.batch[i].type = "Merge" => batch.batch[i].value # UnsortedSeries

\* For the batches whose time series operands have their samples in order,
\* a Get on the batch that succeeds hands back what Get on the store hands
\* back once the batch is committed.
C38_OperandsInOrder ==
  (batch.open /\ OperandsInOrder) =>
    \A k \in BatchKeys :
      DBBatch_Get(batch, store, k).status = ""
        => GetAfterCommit(k) = DBBatch_Get(batch, store, k)


\* C39: the updates counter of an open indexed or write-only batch is the
\* number of operations buffered in the batch, also after an ApplyBatchRepr
\* that handed back an error.
C39_UpdatesCountsOperations ==
  /\ batch.open => batch.updates = Len(batch.batch)
  /\ wo.open => wo.updates = Len(wo.batch)

\* The counter is never above the number of operations buffered.
C39_UpdatesAtMostOperations ==
  /\ batch.open => batch.updates <= Len(batch.batch)
  /\ wo.open => wo.updates <= Len(wo.batch)

\* A batch whose counter is zero while it holds operations: CommitBatch
\* writes none of them and Get reads the store alone.
C39_NothingBufferedAtZero ==
  (batch.open /\ batch.updates = 0) => batch.batch = <<>>

====
